---- MODULE Spec2Model ----
(***************************************************************************)
(* ThemeTracker: the violation detection and contextual coverage engine.   *)
(*                                                                         *)
(* Text (file content, file paths, property names) is a sequence of        *)
(* one-character strings, so that the substring, index and regular         *)
(* expression operations of the engine are computed character by character *)
(* as the JavaScript does.                                                 *)
(***************************************************************************)
EXTENDS Integers, Sequences, FiniteSets, TLC

VARIABLES
    pc,            \* position of the audit: "input", then the stage reached
    content,       \* the audited file's text
    filePath,      \* the audited file's path
    config,        \* the project configuration handed to the engine
    fileType,      \* result of determineFileType / the scorer's fileType input
    violations,    \* the violations list (extractViolations / scorer input)
    themeTokens,   \* the deduplicated theme token list
    coverage,      \* result of calculateContextualCoverage (lib engine)
    status,        \* result of getCoverageStatus
    scriptsFileType, \* fileType.type of the scripts engine
    scriptsCoverage, \* result of calculateContextualCoverage (scripts engine)
    regexMatch,    \* a regular expression match: its index and its text
    insideFallback, \* result of isInsideCssVariableFallback for that match
    designTokenColorsCache, \* module-level cache of the approved color list
    lastConfigPath, \* module-level path the cache was filled for
    tokenFiles,    \* the file system: what stands at each token file path
    fileReads,     \* number of fs.readFileSync calls made by the token loader
    approvedColors, \* the list returned by the last loadApprovedTailwindColors
    loadCalls,     \* the loader calls made so far: path, reads, list, cache
    lastIndex,     \* lastIndex of each module-level regular expression
    audits,        \* the audits made so far: their inputs and results
    recommendations, \* result of generateRecommendations
    sourceFiles,   \* the file system: the text that stands at each source path
    filePaths,     \* the list of paths handed to auditFiles
    results,       \* the results array auditFiles has built so far
    settled,       \* how the promise of the last call settled, and with what
    request,       \* the request the server is handling
    sent,          \* the messages handed to the requesting client, in order
    currentAuditData, \* the server's stored audit data, by path
    sharedDefaults, \* the mutable parts of the module-level DEFAULT_CONFIG
    loaded         \* the configurations the ConfigLoader instances returned

vars == <<pc, content, filePath, config, fileType, violations, themeTokens,
          coverage, status, scriptsFileType, scriptsCoverage, regexMatch,
          insideFallback, designTokenColorsCache, lastConfigPath, tokenFiles,
          fileReads, approvedColors, loadCalls, lastIndex, audits,
          recommendations, sourceFiles, filePaths, results, settled, request,
          sent, currentAuditData, sharedDefaults, loaded>>

\* the state that lives as long as the process, and the histories
processVars == <<designTokenColorsCache, lastConfigPath, tokenFiles, fileReads,
                 approvedColors, loadCalls, lastIndex, audits, recommendations>>

\* the state of the callers of the engine: batch, servers, loaders
serviceVars == <<sourceFiles, filePaths, results, settled, request, sent,
                 currentAuditData, sharedDefaults, loaded>>

NoValue == "none"

\* the process state takes no part in the run
ProcessUnused ==
    /\ designTokenColorsCache = NoValue
    /\ lastConfigPath = NoValue
    /\ tokenFiles = NoValue
    /\ fileReads = NoValue
    /\ approvedColors = NoValue
    /\ loadCalls = NoValue
    /\ lastIndex = NoValue
    /\ audits = NoValue
    /\ recommendations = NoValue

\* the callers of the engine take no part in the run
ServiceUnused ==
    /\ sourceFiles = NoValue
    /\ filePaths = NoValue
    /\ results = NoValue
    /\ settled = NoValue
    /\ request = NoValue
    /\ sent = NoValue
    /\ currentAuditData = NoValue
    /\ sharedDefaults = NoValue
    /\ loaded = NoValue

----------------------------------------------------------------------------
(* Bounds of the model. *)

MaxViolations == 4
MaxThemeTokens == 11
MaxScriptsViolations == 3
MaxScriptsTokens == 2

----------------------------------------------------------------------------
(* Arithmetic helpers (Math.max, Math.min). *)

Max(a, b) == IF a >= b THEN a ELSE b
Min(a, b) == IF a <= b THEN a ELSE b


----------------------------------------------------------------------------
(* Text helpers.  Indices are JavaScript's: 0-based, so character k of a    *)
(* text s is s[k + 1], and -1 means "not found".                            *)

LowerLetters ==
    {"a", "b", "c", "d", "e", "f", "g", "h", "i", "j", "k", "l", "m",
     "n", "o", "p", "q", "r", "s", "t", "u", "v", "w", "x", "y", "z"}
UpperLetters ==
    {"A", "B", "C", "D", "E", "F", "G", "H", "I", "J", "K", "L", "M",
     "N", "O", "P", "Q", "R", "S", "T", "U", "V", "W", "X", "Y", "Z"}
Letters == LowerLetters \cup UpperLetters
Digits == {"0", "1", "2", "3", "4", "5", "6", "7", "8", "9"}
HexDigits == Digits \cup {"a", "b", "c", "d", "e", "f", "A", "B", "C", "D", "E", "F"}
\* \s
Whitespace == {" ", "\n", "\t", "\r"}
\* \w
WordChars == Letters \cup Digits \cup {"_"}
\* The backquote character (U+0060) cannot be written in a string of this
\* language; the atom "BQ" stands for it.
Backquote == "BQ"
\* the class of the three quote characters: single, double, backquote
Quotes == {"'", "\"", Backquote}

UpperSeq ==
    <<"A", "B", "C", "D", "E", "F", "G", "H", "I", "J", "K", "L", "M",
      "N", "O", "P", "Q", "R", "S", "T", "U", "V", "W", "X", "Y", "Z">>
LowerSeq ==
    <<"a", "b", "c", "d", "e", "f", "g", "h", "i", "j", "k", "l", "m",
      "n", "o", "p", "q", "r", "s", "t", "u", "v", "w", "x", "y", "z">>

LowerChar(c) ==
    IF c \in UpperLetters
    THEN LowerSeq[CHOOSE i \in 1..26 : UpperSeq[i] = c]
    ELSE c

\* String.prototype.toLowerCase
ToLowerCase(s) == [i \in 1..Len(s) |-> LowerChar(s[i])]

\* String.prototype.substring(start, end), for 0 <= start, end
Substring(s, start, end) ==
    LET e == Min(end, Len(s))
        b == Min(start, e)
    IN  SubSeq(s, b + 1, e)

\* the text lit stands at index k of s
StartsWithAt(s, k, lit) ==
    /\ k >= 0
    /\ k + Len(lit) <= Len(s)
    /\ \A j \in 1..Len(lit) : s[k + j] = lit[j]

\* as StartsWithAt, ignoring letter case (the i flag)
StartsWithAtIgnoreCase(s, k, lit) ==
    /\ k >= 0
    /\ k + Len(lit) <= Len(s)
    /\ \A j \in 1..Len(lit) : LowerChar(s[k + j]) = LowerChar(lit[j])

\* String.prototype.indexOf(lit, from)
IndexOf(s, lit, from) ==
    LET hits == {k \in from..(Len(s) - Len(lit)) : StartsWithAt(s, k, lit)}
    IN  IF hits = {} THEN -1 ELSE CHOOSE k \in hits : \A h \in hits : k <= h

\* String.prototype.lastIndexOf(lit, from)
LastIndexOf(s, lit, from) ==
    LET hits == {k \in 0..Min(from, Len(s) - Len(lit)) : StartsWithAt(s, k, lit)}
    IN  IF hits = {} THEN -1 ELSE CHOOSE k \in hits : \A h \in hits : k >= h

\* String.prototype.includes
Includes(s, lit) == \E k \in 0..(Len(s) - Len(lit)) : StartsWithAt(s, k, lit)

IncludesIgnoreCase(s, lit) ==
    \E k \in 0..(Len(s) - Len(lit)) : StartsWithAtIgnoreCase(s, k, lit)

\* String.prototype.endsWith
EndsWith(s, lit) == StartsWithAt(s, Len(s) - Len(lit), lit)

\* String.prototype.trim
Trim(s) ==
    LET keep == {i \in 1..Len(s) : s[i] \notin Whitespace}
    IN  IF keep = {} THEN <<>>
        ELSE SubSeq(s, CHOOSE i \in keep : \A j \in keep : i <= j,
                       CHOOSE i \in keep : \A j \in keep : i >= j)

\* index of the first character at or after k that is not in the class cls
\* (the end of a greedy cls* run starting at k); Len(s) if there is none
SkipClass(s, k, cls) ==
    LET stops == {j \in k..(Len(s) - 1) : s[j + 1] \notin cls}
    IN  IF stops = {} THEN Max(k, Len(s)) ELSE CHOOSE j \in stops : \A h \in stops : j <= h

\* index of the first character at or after k that is in the class cls;
\* Len(s) if there is none (the end of a greedy [^cls]* run starting at k)
SkipUntil(s, k, cls) ==
    LET stops == {j \in k..(Len(s) - 1) : s[j + 1] \in cls}
    IN  IF stops = {} THEN Max(k, Len(s)) ELSE CHOOSE j \in stops : \A h \in stops : j <= h

\* the first of the texts lits (in order) that stands at index k; <<>> if none
FirstLiteralAt(s, k, lits) ==
    LET hits == {i \in 1..Len(lits) : StartsWithAt(s, k, lits[i])}
    IN  IF hits = {} THEN <<>> ELSE lits[CHOOSE i \in hits : \A h \in hits : i <= h]

\* RegExp.prototype.exec with the g flag, called until it returns null:
\* the matches of a pattern in ascending order, each search starting at
\* lastIndex, where the previous match ended.  ends[k] is the index just past
\* the match that starts at index k, or -1 if the pattern does not match
\* there.  (No pattern of the catalog matches the empty text.)
RECURSIVE ExecAllFrom(_, _, _)
ExecAllFrom(s, from, ends) ==
    LET starts == {k \in from..Len(s) : ends[k] >= 0}
    IN  IF starts = {} THEN <<>>
        ELSE LET k == CHOOSE i \in starts : \A h \in starts : i <= h
             IN  <<[index |-> k, text |-> Substring(s, k, ends[k])]>>
                 \o (IF ends[k] > k THEN ExecAllFrom(s, ends[k], ends) ELSE <<>>)

ExecAll(s, ends) == ExecAllFrom(s, 0, ends)

----------------------------------------------------------------------------
(* Coverage scorer of the configurable (lib) engine. *)

Severities == {"low", "medium", "high", "critical"}

\* const severityWeights = { high: 3, medium: 2, low: 1 }
severityWeights == [high |-> 3, medium |-> 2, low |-> 1]

\* severityWeights[violation.severity] || 1
SeverityWeightNoFallback(severity) ==
    IF severity \in DOMAIN severityWeights THEN severityWeights[severity] ELSE 0

SeverityWeight(severity) ==
    IF severity \in DOMAIN severityWeights /\ severityWeights[severity] # 0
    THEN severityWeights[severity]
    ELSE 1

\* violations.reduce((total, violation) => total + weight, 0)
RECURSIVE ViolationScore(_)
ViolationScore(vs) ==
    IF vs = <<>> THEN 0
    ELSE SeverityWeight(Head(vs).severity) + ViolationScore(Tail(vs))

BaseCoverageUnclamped(contentLength, violationScore) ==
    IF contentLength > 0 THEN 100 - violationScore * 10 ELSE 100

\* contentLength > 0 ? Math.max(0, 100 - violationScore * 10) : 100
BaseCoverage(contentLength, violationScore) ==
    IF contentLength > 0 THEN Max(0, 100 - violationScore * 10) ELSE 100

TokenBonusUncapped(themeTokenCount) == themeTokenCount * 2

\* a bonus of four points a token, capped at 40
TokenBonusDoubled(themeTokenCount) == Min(40, themeTokenCount * 4)

\* Math.min(20, themeTokenCount * 2)
TokenBonus(themeTokenCount) == Min(20, themeTokenCount * 2)

CalculateContextualCoverageUnclamped(c, vs, tokens, ft) ==
    BaseCoverage(Len(c), ViolationScore(vs)) + TokenBonus(Len(tokens))

\* calculateContextualCoverage(content, violations, themeTokens, fileType)
CalculateContextualCoverage(c, vs, tokens, ft) ==
    LET violationScore == ViolationScore(vs)
        themeTokenCount == Len(tokens)
        contentLength == Len(c)
        baseCoverage == BaseCoverage(contentLength, violationScore)
        tokenBonus == TokenBonus(themeTokenCount)
    IN  Min(100, Max(0, baseCoverage + tokenBonus))

FileTypes ==
    {"style-file", "test", "story", "types", "config", "page-component",
     "container", "ui-component", "utility", "other"}

\* const expectedCoverage = { "ui-component": { min: 75, good: 85, ... }, ... }
expectedCoverage ==
    ("ui-component" :> [min |-> 75, good |-> 85, excellent |-> 100]) @@
    ("page-component" :> [min |-> 60, good |-> 75, excellent |-> 100]) @@
    ("style-file" :> [min |-> 70, good |-> 85, excellent |-> 100]) @@
    ("utility" :> [min |-> 10, good |-> 25, excellent |-> 100]) @@
    ("container" :> [min |-> 40, good |-> 65, excellent |-> 100]) @@
    ("other" :> [min |-> 30, good |-> 55, excellent |-> 100])

\* the thresholds of the profile "other" for every file type
ExpectationsOfOther(ft) == expectedCoverage["other"]

\* expectedCoverage[fileType] || expectedCoverage["other"]
Expectations(ft) ==
    IF ft \in DOMAIN expectedCoverage THEN expectedCoverage[ft]
    ELSE expectedCoverage["other"]

ReachesPoorWholeMin(cov, expectations) == cov >= expectations.min * 5

\* coverage >= expectations.min * 0.5, in whole numbers
ReachesPoor(cov, expectations) == 2 * cov >= expectations.min

GetCoverageStatus(cov, ft) ==
    LET expectations == Expectations(ft)
    IN  IF cov >= expectations.excellent THEN "excellent"
        ELSE IF cov >= expectations.good THEN "good"
        ELSE IF cov >= expectations.min THEN "fair"
        ELSE IF ReachesPoor(cov, expectations) THEN "poor"
        ELSE "critical"

----------------------------------------------------------------------------
(* Coverage scorer of the scripts engine (scripts/audit-engine.js). *)

ScriptsFileTypes ==
    {"container", "layout", "component", "utility", "wrapper", "page"}

\* /:\s*[^;]+;/ at index k: a colon, at least one character that is not a
\* semicolon, then the first semicolon
CssStyleDeclarationEnd(s, k) ==
    IF ~StartsWithAt(s, k, <<":">>) THEN -1
    ELSE LET semi == SkipUntil(s, k + 1, {";"})
         IN  IF semi < Len(s) /\ semi >= k + 2 THEN semi + 1 ELSE -1

JsObjectStyleKeywords ==
    <<<<"m", "a", "r", "g", "i", "n">>, <<"p", "a", "d", "d", "i", "n", "g">>, <<"g", "a", "p">>, <<"f", "o", "n", "t", "S", "i", "z", "e">>, <<"c", "o", "l", "o", "r">>,
      <<"b", "a", "c", "k", "g", "r", "o", "u", "n", "d", "C", "o", "l", "o", "r">>, <<"b", "o", "r", "d", "e", "r", "C", "o", "l", "o", "r">>, <<"b", "o", "r", "d", "e", "r">>, <<"b", "o", "x", "S", "h", "a", "d", "o", "w">>>>

\* /(?:margin|...|boxShadow):\s*['"q][^'"q]*['"q]/ at index k (q: backquote)
JsObjectStyleDeclarationEnd(s, k) ==
    LET kw == FirstLiteralAt(s, k, [i \in 1..Len(JsObjectStyleKeywords) |->
                                       JsObjectStyleKeywords[i] \o <<":">>])
        open == SkipClass(s, k + Len(kw), Whitespace)
        close == SkipUntil(s, open + 1, Quotes)
    IN  IF kw # <<>> /\ open < Len(s) /\ s[open + 1] \in Quotes /\ close < Len(s)
        THEN close + 1
        ELSE -1

StyledComponentKeywords ==
    <<<<"m", "a", "r", "g", "i", "n">>, <<"p", "a", "d", "d", "i", "n", "g">>, <<"g", "a", "p">>, <<"f", "o", "n", "t", "S", "i", "z", "e">>, <<"c", "o", "l", "o", "r">>,
      <<"b", "a", "c", "k", "g", "r", "o", "u", "n", "d", "C", "o", "l", "o", "r">>, <<"b", "o", "r", "d", "e", "r", "C", "o", "l", "o", "r">>, <<"b", "o", "r", "d", "e", "r">>, <<"b", "o", "x", "S", "h", "a", "d", "o", "w">>,
      <<"d", "i", "s", "p", "l", "a", "y">>, <<"p", "o", "s", "i", "t", "i", "o", "n">>>>

\* /q[^q]*(?:margin|...|position)[^q]*q/ at index k (q: backquote): a
\* backquote, and a keyword before the next backquote
StyledComponentStyleEnd(s, k) ==
    IF ~StartsWithAt(s, k, <<Backquote>>) THEN -1
    ELSE LET close == SkipUntil(s, k + 1, {Backquote})
         IN  IF /\ close < Len(s)
                /\ \E i \in 1..Len(StyledComponentKeywords) :
                       Includes(Substring(s, k + 1, close), StyledComponentKeywords[i])
             THEN close + 1
             ELSE -1

\* (content.match(re) || []).length
CountMatches(s, ends) == Len(ExecAll(s, ends))

TotalStyleDeclarations(c) ==
    CountMatches(c, [k \in 0..Len(c) |-> CssStyleDeclarationEnd(c, k)])
    + CountMatches(c, [k \in 0..Len(c) |-> JsObjectStyleDeclarationEnd(c, k)])
    + CountMatches(c, [k \in 0..Len(c) |-> StyledComponentStyleEnd(c, k)])

CountSeverity(vs, severity) == Len(SelectSeq(vs, LAMBDA v : v.severity = severity))

\* Math.round(Math.min((tokens / Math.max(decls * 0.3, 1)) * 100, 100)),
\* in exact arithmetic: round(x) = floor(x + 1/2)
RoundedTokenCoverage(themeTokenUsage, totalStyleDeclarations) ==
    IF 3 * totalStyleDeclarations <= 10
    THEN Min(themeTokenUsage * 100, 100)
    ELSE IF 1000 * themeTokenUsage >= 300 * totalStyleDeclarations THEN 100
    ELSE (2000 * themeTokenUsage + 3 * totalStyleDeclarations)
             \div (6 * totalStyleDeclarations)

ScriptsCalculateCoverage(c, vs, tokens) ==
    LET totalStyleDeclarations == TotalStyleDeclarations(c)
        high == CountSeverity(vs, "high")
        medium == CountSeverity(vs, "medium")
        low == CountSeverity(vs, "low")
    IN  IF totalStyleDeclarations = 0 /\ Len(vs) > 0
        THEN Max(100 - Min(high * 20 + medium * 15 + low * 10, 90), 0)
        ELSE IF totalStyleDeclarations = 0 THEN 100
        ELSE \* the penalty is a whole number, so it commutes with Math.round
             Max(RoundedTokenCoverage(Len(tokens), totalStyleDeclarations)
                 - Min(high * 15 + medium * 10 + low * 5, 80), 0)

\* style\s*=\s*\{[^}]*(?:color|background|margin|padding|border|font)(?![A-Za-z])
InlineThemeableStyle(c) ==
    \E k \in 0..Len(c) :
        LET eq == SkipClass(c, k + 5, Whitespace)
            brace == SkipClass(c, eq + 1, Whitespace)
            close == SkipUntil(c, brace + 1, {"}"})
        IN  /\ StartsWithAt(c, k, <<"s", "t", "y", "l", "e">>)
            /\ StartsWithAt(c, eq, <<"=">>)
            /\ StartsWithAt(c, brace, <<"{">>)
            /\ \E kw \in {<<"c", "o", "l", "o", "r">>, <<"b", "a", "c", "k", "g", "r", "o", "u", "n", "d">>, <<"m", "a", "r", "g", "i", "n">>, <<"p", "a", "d", "d", "i", "n", "g">>,
                          <<"b", "o", "r", "d", "e", "r">>, <<"f", "o", "n", "t">>} :
                   \E j \in (brace + 1)..(close - Len(kw)) :
                       /\ StartsWithAt(c, j, kw)
                       /\ (j + Len(kw) < Len(c) => c[j + Len(kw) + 1] \notin Letters)

\* /className.*styled/ : the dot matches no line terminator
ClassNameStyled(c) ==
    \E k \in 0..Len(c) :
        /\ StartsWithAt(c, k, <<"c", "l", "a", "s", "s", "N", "a", "m", "e">>)
        /\ \E j \in (k + 9)..Len(c) :
               /\ StartsWithAt(c, j, <<"s", "t", "y", "l", "e", "d">>)
               /\ \A i \in (k + 9)..(j - 1) : c[i + 1] \notin {"\n", "\r"}

\* /\$\{[^}]*theme[^}]*\}/
TemplateThemeUsage(c) ==
    \E k \in 0..Len(c) :
        LET close == SkipUntil(c, k + 2, {"}"})
        IN  /\ StartsWithAt(c, k, <<"$", "{">>)
            /\ close < Len(c)
            /\ Includes(Substring(c, k + 2, close), <<"t", "h", "e", "m", "e">>)

\* needsTheming: hasThemeableStyling.  (The function returns false when only
\* functional styling is found and hasThemeableStyling otherwise, which is
\* the value of hasThemeableStyling in both cases.)
NeedsTheming(c) ==
    \/ Includes(c, <<"s", "t", "y", "l", "e", "d", "(">>)
    \/ Includes(c, <<"s", "t", "y", "l", "e", "d", ".">>)
    \/ Includes(c, <<"c", "s", "s", Backquote>>)
    \/ Includes(c, <<"e", "m", "o", "t", "i", "o", "n">>)
    \/ Includes(c, <<"m", "a", "k", "e", "S", "t", "y", "l", "e", "s">>)
    \/ Includes(c, <<"c", "r", "e", "a", "t", "e", "S", "t", "y", "l", "e", "s">>)
    \/ InlineThemeableStyle(c)
    \/ ClassNameStyled(c)
    \/ TemplateThemeUsage(c)

ScriptsContextualCoverage(c, vs, tokens, ftype) ==
    LET baseCoverage == ScriptsCalculateCoverage(c, vs, tokens)
        styled == NeedsTheming(c)
    IN  CASE ftype = "container" ->
                 IF ~styled /\ Len(vs) = 0 THEN 100
                 ELSE IF ~styled /\ Len(vs) > 0 THEN Max(baseCoverage - 30, 0)
                 ELSE Max(baseCoverage - 25, 0)
          [] ftype = "utility" ->
                 IF ~styled /\ Len(vs) = 0 THEN 100
                 ELSE IF ~styled /\ Len(vs) > 0 THEN Max(baseCoverage - 30, 0)
                 ELSE Max(baseCoverage - 20, 0)
          [] ftype = "wrapper" ->
                 IF ~styled /\ Len(vs) = 0 THEN 100
                 ELSE IF styled /\ Len(vs) <= 2 THEN Min(baseCoverage + 10, 95)
                 ELSE IF Len(vs) > 2 THEN Max(baseCoverage - 15, 0)
                 ELSE baseCoverage
          [] ftype = "layout" ->
                 IF Len(vs) > 0 THEN Min(baseCoverage + 5, 95)
                 ELSE Min(baseCoverage + 10, 100)
          [] ftype = "component" ->
                 IF Len(vs) > 0 THEN Max(baseCoverage - Min(Len(vs) * 3, 15), 0)
                 ELSE baseCoverage
          [] ftype = "page" ->
                 IF Len(vs) > 0 THEN Min(baseCoverage, 90)
                 ELSE Min(baseCoverage + 5, 100)
          [] OTHER -> baseCoverage

----------------------------------------------------------------------------
(* File type classifier of the configurable (lib) engine. *)

\* characters the dot of a regular expression does not match
LineTerminators == {"\n", "\r"}

\* path.basename(filePath), POSIX: the text after the last slash, trailing
\* slashes dropped
Basename(p) ==
    LET kept == {i \in 1..Len(p) : p[i] # "/"}
        end == IF kept = {} THEN 0 ELSE CHOOSE i \in kept : \A j \in kept : i >= j
        slashes == {i \in 1..end : p[i] = "/"}
        start == IF slashes = {} THEN 0
                 ELSE CHOOSE i \in slashes : \A j \in slashes : i >= j
    IN  SubSeq(p, start + 1, end)

\* path.extname(fileName): from the last dot of the name to its end; empty
\* when there is no dot or the name only starts with one
Extname(name) ==
    LET dot == LastIndexOf(name, <<".">>, Len(name))
    IN  IF dot <= 0 \/ name = <<".", ".">> THEN <<>> ELSE Substring(name, dot, Len(name))

\* new RegExp(a + ".*" + b).test(s): a, then b later on the same line
MatchesThenOnLine(s, a, b) ==
    \E k \in 0..Len(s) :
        /\ StartsWithAt(s, k, a)
        /\ \E j \in (k + Len(a))..Len(s) :
               /\ StartsWithAt(s, j, b)
               /\ \A i \in (k + Len(a))..(j - 1) : s[i + 1] \notin LineTerminators

\* new RegExp(a + "." + b).test(s): a, any one character of the line, b
MatchesWithAnyBetween(s, a, b) ==
    \E k \in 0..Len(s) :
        /\ StartsWithAt(s, k, a)
        /\ k + Len(a) < Len(s)
        /\ s[k + Len(a) + 1] \notin LineTerminators
        /\ StartsWithAt(s, k + Len(a) + 1, b)

\* the uiIndicators that are plain texts: as a regular expression each
\* matches exactly where includes() finds it
PlainUiIndicators ==
    {<<"s", "t", "y", "l", "e", "d">>, <<"c", "l", "a", "s", "s", "N", "a", "m", "e">>, <<"c", "s", "s", Backquote>>, <<"e", "m", "o", "t", "i", "o", "n">>, <<"m", "a", "k", "e", "S", "t", "y", "l", "e", "s">>,
     <<"u", "s", "e", "S", "t", "y", "l", "e", "s">>, <<"t", "h", "e", "m", "e">>, <<"T", "h", "e", "m", "e", "P", "r", "o", "v", "i", "d", "e", "r">>, <<"j", "s", "x">>, <<"t", "s", "x">>,
     <<"e", "x", "p", "o", "r", "t", " ", "d", "e", "f", "a", "u", "l", "t">>, <<"e", "x", "p", "o", "r", "t", " ", "c", "o", "n", "s", "t">>}

\* uiIndicators.some(i => content.includes(i) || new RegExp(i).test(content))
HasUIIndicators(c) ==
    \/ \E ind \in PlainUiIndicators : Includes(c, ind)
    \/ Includes(c, <<"R", "e", "a", "c", "t", ".", "F", "C">>)
    \/ MatchesWithAnyBetween(c, <<"R", "e", "a", "c", "t">>, <<"F", "C">>)
    \/ Includes(c, <<"R", "e", "a", "c", "t", ".", "C", "o", "m", "p", "o", "n", "e", "n", "t">>)
    \/ MatchesWithAnyBetween(c, <<"R", "e", "a", "c", "t">>, <<"C", "o", "m", "p", "o", "n", "e", "n", "t">>)
    \/ Includes(c, <<"i", "m", "p", "o", "r", "t", ".", "*", "f", "r", "o", "m", ".", "*", "r", "e", "a", "c", "t">>)
    \/ \E k \in 0..Len(c) :
           /\ StartsWithAt(c, k, <<"i", "m", "p", "o", "r", "t">>)
           /\ MatchesThenOnLine(
                  Substring(c, k + 6, SkipUntil(c, k + 6, LineTerminators)),
                  <<"f", "r", "o", "m">>, <<"r", "e", "a", "c", "t">>)

\* /pages?\//i.test(filePath) || /Route/.test(content)
IsPageComponent(p, c) ==
    \/ IncludesIgnoreCase(p, <<"p", "a", "g", "e", "/">>)
    \/ IncludesIgnoreCase(p, <<"p", "a", "g", "e", "s", "/">>)
    \/ Includes(c, <<"R", "o", "u", "t", "e">>)

ContainerWords == {<<"l", "a", "y", "o", "u", "t">>, <<"c", "o", "n", "t", "a", "i", "n", "e", "r">>, <<"w", "r", "a", "p", "p", "e", "r">>, <<"p", "r", "o", "v", "i", "d", "e", "r">>}
ContainerContentWords == {<<"L", "a", "y", "o", "u", "t">>, <<"C", "o", "n", "t", "a", "i", "n", "e", "r">>, <<"W", "r", "a", "p", "p", "e", "r">>, <<"P", "r", "o", "v", "i", "d", "e", "r">>}

\* /layout|container|wrapper|provider/i.test(fileName) ||
\* /Layout|Container|Wrapper|Provider/.test(content)
IsContainer(fileName, c) ==
    \/ \E w \in ContainerWords : IncludesIgnoreCase(fileName, w)
    \/ \E w \in ContainerContentWords : Includes(c, w)

utilityIndicators ==
    {<<"u", "t", "i", "l">>, <<"h", "e", "l", "p", "e", "r">>, <<"s", "e", "r", "v", "i", "c", "e">>, <<"a", "p", "i">>, <<"h", "o", "o", "k">>, <<"c", "o", "n", "t", "e", "x", "t">>}

IsUtility(fileName, p) ==
    \E ind \in utilityIndicators :
        \/ Includes(ToLowerCase(fileName), ind)
        \/ Includes(ToLowerCase(p), ind)

StyleExtensions == {<<"c", "s", "s">>, <<"s", "c", "s", "s">>, <<"s", "a", "s", "s">>, <<"l", "e", "s", "s">>}

DetermineFileTypeContainerFirst(p, c) ==
    LET fileName == Basename(p)
        ext == Extname(fileName)
        fileExt == Substring(ToLowerCase(ext), 1, Len(ext))
    IN  IF fileExt \in StyleExtensions THEN "style-file"
        ELSE IF \/ Includes(fileName, <<".", "t", "e", "s", "t", ".">>)
                \/ Includes(fileName, <<".", "s", "p", "e", "c", ".">>)
                \/ Includes(p, <<"_", "_", "t", "e", "s", "t", "s", "_", "_">>) THEN "test"
        ELSE IF Includes(fileName, <<".", "s", "t", "o", "r", "i", "e", "s", ".">>) THEN "story"
        ELSE IF EndsWith(fileName, <<".", "d", ".", "t", "s">>) \/ Includes(fileName, <<"t", "y", "p", "e", "s">>)
             THEN "types"
        ELSE IF Includes(fileName, <<"c", "o", "n", "f", "i", "g">>) \/ Includes(fileName, <<".", "c", "o", "n", "f", "i", "g", ".">>)
             THEN "config"
        ELSE IF IsContainer(fileName, c) THEN "container"
        ELSE IF IsPageComponent(p, c) THEN "page-component"
        ELSE IF HasUIIndicators(c) /\ ~IsUtility(fileName, p) THEN "ui-component"
        ELSE IF IsUtility(fileName, p) THEN "utility"
        ELSE "other"

\* determineFileType(filePath, content)
DetermineFileType(p, c) ==
    LET fileName == Basename(p)
        ext == Extname(fileName)
        fileExt == Substring(ToLowerCase(ext), 1, Len(ext))
    IN  IF fileExt \in StyleExtensions THEN "style-file"
        ELSE IF \/ Includes(fileName, <<".", "t", "e", "s", "t", ".">>)
                \/ Includes(fileName, <<".", "s", "p", "e", "c", ".">>)
                \/ Includes(p, <<"_", "_", "t", "e", "s", "t", "s", "_", "_">>) THEN "test"
        ELSE IF Includes(fileName, <<".", "s", "t", "o", "r", "i", "e", "s", ".">>) THEN "story"
        ELSE IF EndsWith(fileName, <<".", "d", ".", "t", "s">>) \/ Includes(fileName, <<"t", "y", "p", "e", "s">>)
             THEN "types"
        ELSE IF Includes(fileName, <<"c", "o", "n", "f", "i", "g">>) \/ Includes(fileName, <<".", "c", "o", "n", "f", "i", "g", ".">>)
             THEN "config"
        ELSE IF IsPageComponent(p, c) THEN "page-component"
        ELSE IF IsContainer(fileName, c) THEN "container"
        ELSE IF HasUIIndicators(c) /\ ~IsUtility(fileName, p) THEN "ui-component"
        ELSE IF IsUtility(fileName, p) THEN "utility"
        ELSE "other"

----------------------------------------------------------------------------
(* The fallback and ignore guard (lib engine).                              *)
(*                                                                         *)
(* The configuration is a record: hasIgnoreProperties tells whether         *)
(* config.analysis.violations.ignoreProperties is defined, ignoreProperties *)
(* is its value, a sequence of texts.                                       *)

\* the value null; no text equals it, a text being made of single characters
Null == <<"null">>

\* config?.analysis?.violations?.ignoreProperties || []
IgnoreProperties(cfg) ==
    IF cfg.hasIgnoreProperties THEN cfg.ignoreProperties ELSE <<>>

\* Array.prototype.includes
ArrayIncludes(list, x) == \E i \in 1..Len(list) : list[i] = x

ExtractCssProperty(match) ==
    LET colonIndex == IndexOf(match, <<":">>, 0)
    IN  IF colonIndex = -1 THEN Null
        ELSE ToLowerCase(Trim(Substring(match, 0, colonIndex)))

\* isPropertyIgnored that reads no ignore list
IsPropertyIgnoredNever(match, cfg) == FALSE

IsPropertyIgnored(match, cfg) ==
    LET ignoreProperties == IgnoreProperties(cfg)
        property == ExtractCssProperty(match)
    IN  IF Len(ignoreProperties) = 0 THEN FALSE
        ELSE IF property = Null \/ property = <<>> THEN FALSE
        ELSE ArrayIncludes(ignoreProperties, property)

\* characters of context read before a color match to find its property
ColorPropertyContext == 50

\* the alternatives of colorPropertyPattern
ColorPropertyNames ==
    <<<<"b", "a", "c", "k", "g", "r", "o", "u", "n", "d", "-", "c", "o", "l", "o", "r">>, <<"c", "o", "l", "o", "r">>, <<"b", "o", "r", "d", "e", "r", "-", "c", "o", "l", "o", "r">>, <<"f", "i", "l", "l">>, <<"s", "t", "r", "o", "k", "e">>,
      <<"b", "a", "c", "k", "g", "r", "o", "u", "n", "d">>>>

\* beforeMatch.match(colorPropertyPattern): capture 1 of the leftmost match
\* of /(background-color|color|border-color|fill|stroke|background):\s*$/,
\* or Null.  At one start index at most one alternative is followed by ":",
\* and the search takes the smallest start index.
ColorPropertyBefore(beforeMatch) ==
    LET AltAt(k) ==
            {i \in 1..Len(ColorPropertyNames) :
                /\ StartsWithAt(beforeMatch, k, ColorPropertyNames[i] \o <<":">>)
                /\ SkipClass(beforeMatch, k + Len(ColorPropertyNames[i]) + 1,
                             Whitespace) = Len(beforeMatch)}
        starts == {k \in 0..Len(beforeMatch) : AltAt(k) # {}}
    IN  IF starts = {} THEN Null
        ELSE LET k == CHOOSE i \in starts : \A h \in starts : i <= h
             IN  ColorPropertyNames[CHOOSE i \in AltAt(k) : \A h \in AltAt(k) : i <= h]

IsColorPropertyIgnored(match, text, matchIndex, cfg) ==
    LET ignoreProperties == IgnoreProperties(cfg)
        beforeMatch == Substring(text, Max(0, matchIndex - ColorPropertyContext),
                                 matchIndex)
        match_result == ColorPropertyBefore(beforeMatch)
    IN  IF Len(ignoreProperties) = 0 THEN FALSE
        ELSE IF match_result # Null
             THEN ArrayIncludes(ignoreProperties, ToLowerCase(match_result))
             ELSE FALSE

\* characters of context kept before and after a match by the fallback test
FallbackContextBefore == 200
FallbackContextAfter == 50

\* [a-zA-Z0-9-_]
CssVarNameChars == Letters \cup Digits \cup {"-", "_"}

\* the var call head matched in lower case only
CssVarHeadEndLowerCase(s, k) ==
    IF ~(/\ StartsWithAt(s, k, <<"v", "a", "r">>)
         /\ (k = 0 \/ s[k] \notin WordChars))
    THEN -1
    ELSE LET open == SkipClass(s, k + 3, Whitespace)
             dashes == SkipClass(s, open + 1, Whitespace)
             nameEnd == SkipClass(s, dashes + 2, Letters \cup Digits \cup {"-", "_"})
         IN  IF /\ StartsWithAt(s, open, <<"(">>)
                /\ StartsWithAt(s, dashes, <<"-", "-">>)
                /\ nameEnd > dashes + 2
             THEN SkipClass(s, nameEnd, Whitespace)
             ELSE -1

\* \b[Vv][Aa][Rr]\s*\(\s*--[a-zA-Z0-9-_]+\s*  starting at index k: the index
\* past it, or -1.  Every repetition is followed by a character outside its
\* class, so the greedy match is the only one.
CssVarHeadEnd(s, k) ==
    IF ~(/\ StartsWithAtIgnoreCase(s, k, <<"v", "a", "r">>)
         /\ (k = 0 \/ s[k] \notin WordChars))
    THEN -1
    ELSE LET open == SkipClass(s, k + 3, Whitespace)
             dashes == SkipClass(s, open + 1, Whitespace)
             nameEnd == SkipClass(s, dashes + 2, CssVarNameChars)
         IN  IF /\ StartsWithAt(s, open, <<"(">>)
                /\ StartsWithAt(s, dashes, <<"-", "-">>)
                /\ nameEnd > dashes + 2
             THEN SkipClass(s, nameEnd, Whitespace)
             ELSE -1

\* cssVarPatterns[0]:  head , \s* [^,)]* $
CssVarWithFallback(s) ==
    \E k \in 0..(Len(s) - 3) :
        LET head == CssVarHeadEnd(s, k)
        IN  /\ head >= 0
            /\ StartsWithAt(s, head, <<",">>)
            /\ SkipUntil(s, head + 1, {",", ")"}) = Len(s)

\* cssVarPatterns[1]:  head , \s* [Vv][Aa][Rr] \s* \( [^)]* , \s* [^,)]* $
NestedCssVar(s) ==
    \E k \in 0..(Len(s) - 3) :
        LET head == CssVarHeadEnd(s, k)
            inner == SkipClass(s, head + 1, Whitespace)
            open == SkipClass(s, inner + 3, Whitespace)
        IN  /\ head >= 0
            /\ StartsWithAt(s, head, <<",">>)
            /\ StartsWithAtIgnoreCase(s, inner, <<"v", "a", "r">>)
            /\ StartsWithAt(s, open, <<"(">>)
            /\ SkipUntil(s, open + 1, {")"}) = Len(s)
            /\ SkipUntil(s, open + 1, {","}) < Len(s)

\* cssVarPatterns[2]:  head (?: , \s* [^,)]* )* , \s* [^,)]* $
CssVarMultipleFallbacks(s) ==
    \E k \in 0..(Len(s) - 3) :
        LET head == CssVarHeadEnd(s, k)
        IN  /\ head >= 0
            /\ StartsWithAt(s, head, <<",">>)
            /\ SkipUntil(s, head + 1, {")"}) = Len(s)

\* cssVarPatterns.some((pattern) => pattern.test(beforeMatch))
HasCssVarBefore(beforeMatch) ==
    \/ CssVarWithFallback(beforeMatch)
    \/ NestedCssVar(beforeMatch)
    \/ CssVarMultipleFallbacks(beforeMatch)

\* /^\s*\)\s*[;}]?/.test(afterMatch)
HasClosingAfter(afterMatch) ==
    StartsWithAt(afterMatch, SkipClass(afterMatch, 0, Whitespace), <<")">>)

\* (s.match(/c/g) || []).length for a one-character pattern
CountChar(s, c) == Cardinality({i \in 1..Len(s) : s[i] = c})

\* beforeMatch and afterMatch of isInsideCssVariableFallback
FallbackBeforeMatch(match, text, matchIndex) ==
    LET contextStart == Max(0, matchIndex - FallbackContextBefore)
        contextEnd == Min(Len(text), matchIndex + Len(match) + FallbackContextAfter)
        context == Substring(text, contextStart, contextEnd)
        relativeMatchIndex == matchIndex - contextStart
    IN  Substring(context, 0, relativeMatchIndex)

FallbackAfterMatch(match, text, matchIndex) ==
    LET contextStart == Max(0, matchIndex - FallbackContextBefore)
        contextEnd == Min(Len(text), matchIndex + Len(match) + FallbackContextAfter)
        context == Substring(text, contextStart, contextEnd)
        relativeMatchIndex == matchIndex - contextStart
    IN  Substring(context, relativeMatchIndex + Len(match), Len(context))

\* isInsideParens, evaluated only when a var pattern precedes the match
IsInsideParens(beforeMatch) ==
    CountChar(beforeMatch, "(") > CountChar(beforeMatch, ")")

\* the function with the trailing-parenthesis return removed
IsInsideCssVariableFallbackBalanceOnly(match, text, matchIndex) ==
    LET beforeMatch == FallbackBeforeMatch(match, text, matchIndex)
    IN  HasCssVarBefore(beforeMatch) /\ IsInsideParens(beforeMatch)

IsInsideCssVariableFallback(match, text, matchIndex) ==
    LET beforeMatch == FallbackBeforeMatch(match, text, matchIndex)
        afterMatch == FallbackAfterMatch(match, text, matchIndex)
        hasCssVarBefore == HasCssVarBefore(beforeMatch)
        hasClosingAfter == HasClosingAfter(afterMatch)
    IN  IF hasCssVarBefore /\ IsInsideParens(beforeMatch)
        THEN TRUE
        ELSE hasCssVarBefore /\ hasClosingAfter

----------------------------------------------------------------------------
(* The rule catalog VIOLATION_PATTERNS (lib engine).  Each matcher gives,   *)
(* for a start index k, the index just past the match of its regular        *)
(* expression that starts at k, or -1.                                      *)

\* as FirstLiteralAt, ignoring letter case
FirstLiteralAtIgnoreCase(s, k, lits) ==
    LET hits == {i \in 1..Len(lits) : StartsWithAtIgnoreCase(s, k, lits[i])}
    IN  IF hits = {} THEN <<>> ELSE lits[CHOOSE i \in hits : \A h \in hits : i <= h]

\* \s* cls+ \s*  starting at index p: the index past it, or -1
NumberEnd(s, p, cls) ==
    IF p < 0 THEN -1
    ELSE LET a == SkipClass(s, p, Whitespace)
             b == SkipClass(s, a, cls)
         IN  IF b = a THEN -1 ELSE SkipClass(s, b, Whitespace)

\* the literal lit at index p: the index past it, or -1
LiteralEnd(s, p, lit) ==
    IF p >= 0 /\ StartsWithAt(s, p, lit) THEN p + Len(lit) ELSE -1

\* #[0-9a-fA-F]{3,6}
HexColorEnd(s, k) ==
    IF ~StartsWithAt(s, k, <<"#">>) THEN -1
    ELSE LET n == Min(SkipClass(s, k + 1, HexDigits) - (k + 1), 6)
         IN  IF n >= 3 THEN k + 1 + n ELSE -1

\* rgb\(\s*\d+\s*,\s*\d+\s*,\s*\d+\s*\)
RgbColorEnd(s, k) ==
    LET r == NumberEnd(s, LiteralEnd(s, k, <<"r", "g", "b", "(">>), Digits)
        g == NumberEnd(s, LiteralEnd(s, r, <<",">>), Digits)
        b == NumberEnd(s, LiteralEnd(s, g, <<",">>), Digits)
    IN  LiteralEnd(s, b, <<")">>)

\* rgba\(\s*\d+\s*,\s*\d+\s*,\s*\d+\s*,\s*[\d.]+\s*\)
RgbaColorEnd(s, k) ==
    LET r == NumberEnd(s, LiteralEnd(s, k, <<"r", "g", "b", "a", "(">>), Digits)
        g == NumberEnd(s, LiteralEnd(s, r, <<",">>), Digits)
        b == NumberEnd(s, LiteralEnd(s, g, <<",">>), Digits)
        a == NumberEnd(s, LiteralEnd(s, b, <<",">>), Digits \cup {"."})
    IN  LiteralEnd(s, a, <<")">>)

\* hardcoded-color
HardcodedColorEnd(s, k) ==
    IF HexColorEnd(s, k) >= 0 THEN HexColorEnd(s, k)
    ELSE IF RgbColorEnd(s, k) >= 0 THEN RgbColorEnd(s, k)
    ELSE RgbaColorEnd(s, k)

\* a digit directly followed by one of the units, wholly inside [from, to):
\* what \d+(?:\.\d+)?(?:units) needs between two [^x]* runs
HasNumberWithUnit(s, from, to, units) ==
    \E j \in from..(to - 1) :
        /\ s[j + 1] \in Digits
        /\ \E i \in 1..Len(units) :
              StartsWithAt(s, j + 1, units[i]) /\ j + 1 + Len(units[i]) <= to

\* (?:props):\s*[^;]*\d+(?:\.\d+)?(?:units)[^;]*
\* The match runs to the next ";" or to the end of the text.
StylesheetValueEnd(s, k, props, units) ==
    LET prop == FirstLiteralAt(s, k, props)
        colon == k + Len(prop)
        stop == SkipUntil(s, colon + 1, {";"})
    IN  IF /\ prop # <<>>
           /\ StartsWithAt(s, colon, <<":">>)
           /\ HasNumberWithUnit(s, colon + 1, stop, units)
        THEN stop ELSE -1

PositioningProperties == <<<<"g", "a", "p">>, <<"t", "o", "p">>, <<"r", "i", "g", "h", "t">>, <<"b", "o", "t", "t", "o", "m">>, <<"l", "e", "f", "t">>>>
SpacingProperties == <<<<"m", "a", "r", "g", "i", "n">>, <<"p", "a", "d", "d", "i", "n", "g">>>>
LengthUnits == <<<<"p", "x">>, <<"r", "e", "m">>, <<"e", "m">>>>
PixelUnit == <<<<"p", "x">>>>

\* prop:\s*\d+px   (hardcoded-font-size, hardcoded-border-radius)
PixelDeclarationEnd(s, k, prop) ==
    LET a == SkipClass(s, k + Len(prop) + 1, Whitespace)
        b == SkipClass(s, a, Digits)
    IN  IF /\ StartsWithAt(s, k, prop \o <<":">>)
           /\ b > a
           /\ StartsWithAt(s, b, <<"p", "x">>)
        THEN b + 2 ELSE -1

\* box-shadow:\s*[^;]+;
BoxShadowEnd(s, k) ==
    LET from == k + 11
        semi == SkipUntil(s, from, {";"})
    IN  IF /\ StartsWithAt(s, k, <<"b", "o", "x", "-", "s", "h", "a", "d", "o", "w", ":">>)
           /\ semi > from
           /\ semi < Len(s)
        THEN semi + 1 ELSE -1

ColorNameProperties ==
    <<<<"b", "a", "c", "k", "g", "r", "o", "u", "n", "d", "-", "c", "o", "l", "o", "r">>, <<"c", "o", "l", "o", "r">>, <<"b", "o", "r", "d", "e", "r", "-", "c", "o", "l", "o", "r">>, <<"f", "i", "l", "l">>, <<"s", "t", "r", "o", "k", "e">>>>
ColorNames ==
    <<<<"w", "h", "i", "t", "e">>, <<"b", "l", "a", "c", "k">>, <<"t", "r", "a", "n", "s", "p", "a", "r", "e", "n", "t">>, <<"r", "e", "d">>, <<"b", "l", "u", "e">>, <<"g", "r", "e", "e", "n">>,
      <<"y", "e", "l", "l", "o", "w">>, <<"g", "r", "a", "y">>, <<"g", "r", "e", "y">>, <<"p", "u", "r", "p", "l", "e">>, <<"o", "r", "a", "n", "g", "e">>, <<"p", "i", "n", "k">>,
      <<"b", "r", "o", "w", "n">>, <<"c", "y", "a", "n">>, <<"m", "a", "g", "e", "n", "t", "a">>>>

\* ['"BQ]?(names)['"BQ]?(?:[^}]*\})?  starting at index w, letter case
\* ignored: the index past it, or -1
ColorNameTailEnd(s, w) ==
    LET nameStart == IF w < Len(s) /\ s[w + 1] \in Quotes THEN w + 1 ELSE w
        name == FirstLiteralAtIgnoreCase(s, nameStart, ColorNames)
        nameEnd == nameStart + Len(name)
        quoteEnd == IF nameEnd < Len(s) /\ s[nameEnd + 1] \in Quotes
                    THEN nameEnd + 1 ELSE nameEnd
        brace == SkipUntil(s, quoteEnd, {"}"})
    IN  IF name = <<>> THEN -1
        ELSE IF brace < Len(s) THEN brace + 1 ELSE quoteEnd

\* hardcoded-color-names:
\* (?:props):\s*(?:\$\{[^}]*\?\s*)?['"BQ]?(names)['"BQ]?(?:[^}]*\})?  flags gi
\* The optional group is tried first, its [^}]* giving back from the last
\* "?" before the first "}" to the first.
HardcodedColorNameEnd(s, k) ==
    LET prop == FirstLiteralAtIgnoreCase(s, k, ColorNameProperties)
        colon == k + Len(prop)
        value == SkipClass(s, colon + 1, Whitespace)
        brace == SkipUntil(s, value + 2, {"}"})
        marks == {q \in (value + 2)..(brace - 1) :
                     /\ s[q + 1] = "?"
                     /\ ColorNameTailEnd(s, SkipClass(s, q + 1, Whitespace)) >= 0}
    IN  IF ~(prop # <<>> /\ StartsWithAt(s, colon, <<":">>)) THEN -1
        ELSE IF StartsWithAt(s, value, <<"$", "{">>) /\ marks # {}
        THEN ColorNameTailEnd(s,
                 SkipClass(s, (CHOOSE q \in marks : \A h \in marks : q >= h) + 1,
                           Whitespace))
        ELSE ColorNameTailEnd(s, value)

\* (?:props):\s*['"BQ] (?!var\()? [^'"BQ]*\d+(?:\.\d+)?(?:units)[^'"BQ]*['"BQ]
JsObjectValueEnd(s, k, props, units, rejectVar) ==
    LET prop == FirstLiteralAt(s, k, props)
        colon == k + Len(prop)
        open == SkipClass(s, colon + 1, Whitespace)
        close == SkipUntil(s, open + 1, Quotes)
    IN  IF /\ prop # <<>>
           /\ StartsWithAt(s, colon, <<":">>)
           /\ open < Len(s)
           /\ s[open + 1] \in Quotes
           /\ ~(rejectVar /\ StartsWithAt(s, open + 1, <<"v", "a", "r", "(">>))
           /\ close < Len(s)
           /\ HasNumberWithUnit(s, open + 1, close, units)
        THEN close + 1 ELSE -1

JsColorProperties == <<<<"c", "o", "l", "o", "r">>, <<"b", "a", "c", "k", "g", "r", "o", "u", "n", "d", "C", "o", "l", "o", "r">>, <<"b", "o", "r", "d", "e", "r", "C", "o", "l", "o", "r">>>>

\* rgb\([^)]+\) or rgba\([^)]+\) at index p: the index past it, or -1
JsFunctionalColorEnd(s, p) ==
    LET args == IF StartsWithAt(s, p, <<"r", "g", "b", "(">>) THEN p + 4
                ELSE IF StartsWithAt(s, p, <<"r", "g", "b", "a", "(">>) THEN p + 5 ELSE -1
        close == SkipUntil(s, args, {")"})
    IN  IF args >= 0 /\ close > args /\ close < Len(s) THEN close + 1 ELSE -1

\* js-object-hardcoded-color:
\* (?:props):\s*['"BQ](#[0-9a-fA-F]{3,6}|rgb\([^)]+\)|rgba\([^)]+\))[^'"BQ]*['"BQ]
JsObjectColorEnd(s, k) ==
    LET prop == FirstLiteralAt(s, k, JsColorProperties)
        colon == k + Len(prop)
        open == SkipClass(s, colon + 1, Whitespace)
        color == IF HexColorEnd(s, open + 1) >= 0 THEN HexColorEnd(s, open + 1)
                 ELSE JsFunctionalColorEnd(s, open + 1)
        close == SkipUntil(s, color, Quotes)
    IN  IF /\ prop # <<>>
           /\ StartsWithAt(s, colon, <<":">>)
           /\ open < Len(s)
           /\ s[open + 1] \in Quotes
           /\ color >= 0
           /\ close < Len(s)
        THEN close + 1 ELSE -1

----------------------------------------------------------------------------
(* The className entries of the catalog and the dynamic checker built from  *)
(* the approved colors.  Each is                                            *)
(*     className\s*=\s*[quote] BEFORE token AFTER [quote]                   *)
(* with BEFORE and AFTER either [^quote]* (the token stands before the next *)
(* quote) or .* (the token stands on the line, the match running to the     *)
(* last quote of the line).  A token is given by tokenEnds: for each index, *)
(* the index past the shortest token starting there, or -1.                 *)

\* the smaller of two match ends, -1 standing for no match
MinEnd(a, b) == IF a < 0 THEN b ELSE IF b < 0 THEN a ELSE Min(a, b)

\* className\s*=\s*[quote] starting at index k: the index past it, or -1
ClassNameOpenEnd(s, k) ==
    LET eq == SkipClass(s, k + 9, Whitespace)
        open == SkipClass(s, eq + 1, Whitespace)
    IN  IF /\ StartsWithAt(s, k, <<"c", "l", "a", "s", "s", "N", "a", "m", "e">>)
           /\ StartsWithAt(s, eq, <<"=">>)
           /\ open < Len(s)
           /\ s[open + 1] \in Quotes
        THEN open + 1 ELSE -1

\* [quote] [^quote]* token [^quote]* [quote]
ClassNameSegmentEnd(s, k, tokenEnds) ==
    LET open == ClassNameOpenEnd(s, k)
        close == SkipUntil(s, open, Quotes)
    IN  IF /\ open >= 0
           /\ close < Len(s)
           /\ \E j \in open..close : tokenEnds[j] >= 0 /\ tokenEnds[j] <= close
        THEN close + 1 ELSE -1

\* index of the last quote at or after index e on the line of e, or -1
LastQuoteOnLine(s, e) ==
    LET lineEnd == SkipUntil(s, e, LineTerminators)
        quotes == {q \in e..(lineEnd - 1) : s[q + 1] \in Quotes}
    IN  IF quotes = {} THEN -1 ELSE CHOOSE q \in quotes : \A h \in quotes : q >= h

\* [quote] .* token .* [quote]: the first .* gives back from the end of the
\* line, so the token taken is the last one that a quote follows
ClassNameLineEnd(s, k, tokenEnds) ==
    LET open == ClassNameOpenEnd(s, k)
        lineEnd == SkipUntil(s, open, LineTerminators)
        starts == {j \in open..lineEnd :
                      tokenEnds[j] >= 0 /\ LastQuoteOnLine(s, tokenEnds[j]) >= 0}
    IN  IF open < 0 \/ starts = {} THEN -1
        ELSE LET j == CHOOSE i \in starts : \A h \in starts : i >= h
             IN  LastQuoteOnLine(s, tokenEnds[j]) + 1

\* one of the texts lits followed by at least one character of the class
\* tail (no character when tail is empty), at index j: the index past the
\* shortest such token, or -1
LiteralTokenEnd(s, j, lits, tail) ==
    LET ends == {j + Len(lits[i]) + (IF tail = {} THEN 0 ELSE 1) :
                    i \in {h \in 1..Len(lits) :
                              /\ StartsWithAt(s, j, lits[h])
                              /\ \/ tail = {}
                                 \/ /\ j + Len(lits[h]) < Len(s)
                                    /\ s[j + Len(lits[h]) + 1] \in tail}}
    IN  IF ends = {} THEN -1 ELSE CHOOSE e \in ends : \A h \in ends : e <= h

\* every prefix followed by every name and then by the text suffix
Products(prefixes, names, suffix) ==
    [n \in 1..(Len(prefixes) * Len(names)) |->
        prefixes[((n - 1) \div Len(names)) + 1]
        \o names[((n - 1) % Len(names)) + 1] \o suffix]

ColorUtilityPrefixes == <<<<"b", "g", "-">>, <<"t", "e", "x", "t", "-">>, <<"b", "o", "r", "d", "e", "r", "-">>>>

\* tailwind-hardcoded-colors (high): (bg|text|border)-(palette)-\d+
TailwindPalette ==
    <<<<"r", "e", "d">>, <<"b", "l", "u", "e">>, <<"g", "r", "e", "e", "n">>, <<"y", "e", "l", "l", "o", "w">>, <<"p", "u", "r", "p", "l", "e">>, <<"p", "i", "n", "k">>, <<"g", "r", "a", "y">>,
      <<"i", "n", "d", "i", "g", "o">>, <<"c", "y", "a", "n">>, <<"t", "e", "a", "l">>, <<"o", "r", "a", "n", "g", "e">>, <<"a", "m", "b", "e", "r">>, <<"l", "i", "m", "e">>,
      <<"e", "m", "e", "r", "a", "l", "d">>, <<"s", "k", "y">>, <<"v", "i", "o", "l", "e", "t">>, <<"f", "u", "c", "h", "s", "i", "a">>, <<"r", "o", "s", "e">>>>

\* tailwind-hardcoded-spacing: (p|px|...|space-y)-\d+
SpacingUtilities ==
    <<<<"p", "-">>, <<"p", "x", "-">>, <<"p", "y", "-">>, <<"p", "t", "-">>, <<"p", "b", "-">>, <<"p", "l", "-">>, <<"p", "r", "-">>, <<"m", "-">>,
      <<"m", "x", "-">>, <<"m", "y", "-">>, <<"m", "t", "-">>, <<"m", "b", "-">>, <<"m", "l", "-">>, <<"m", "r", "-">>, <<"g", "a", "p", "-">>,
      <<"s", "p", "a", "c", "e", "-", "x", "-">>, <<"s", "p", "a", "c", "e", "-", "y", "-">>>>

\* tailwind-hardcoded-sizing: (w|h|min-w|min-h|max-w|max-h)-\d+
SizingUtilities ==
    <<<<"w", "-">>, <<"h", "-">>, <<"m", "i", "n", "-", "w", "-">>, <<"m", "i", "n", "-", "h", "-">>, <<"m", "a", "x", "-", "w", "-">>, <<"m", "a", "x", "-", "h", "-">>>>

\* tailwind-hardcoded-typography: text-(sizes)|font-(weights)
TypographyUtilities ==
    Products(<<<<"t", "e", "x", "t", "-">>>>,
             <<<<"x", "s">>, <<"s", "m">>, <<"b", "a", "s", "e">>, <<"l", "g">>, <<"x", "l">>, <<"2", "x", "l">>, <<"3", "x", "l">>,
               <<"4", "x", "l">>, <<"5", "x", "l">>, <<"6", "x", "l">>, <<"7", "x", "l">>, <<"8", "x", "l">>, <<"9", "x", "l">>>>, <<>>)
    \o Products(<<<<"f", "o", "n", "t", "-">>>>,
                <<<<"t", "h", "i", "n">>, <<"e", "x", "t", "r", "a", "l", "i", "g", "h", "t">>, <<"l", "i", "g", "h", "t">>, <<"n", "o", "r", "m", "a", "l">>, <<"m", "e", "d", "i", "u", "m">>,
                  <<"s", "e", "m", "i", "b", "o", "l", "d">>, <<"b", "o", "l", "d">>, <<"e", "x", "t", "r", "a", "b", "o", "l", "d">>, <<"b", "l", "a", "c", "k">>>>, <<>>)

\* tailwind-hardcoded-borders: border-\d+|rounded-(sizes)|border-(styles)
BorderUtilities ==
    Products(<<<<"r", "o", "u", "n", "d", "e", "d", "-">>>>,
             <<<<"n", "o", "n", "e">>, <<"s", "m">>, <<"m", "d">>, <<"l", "g">>, <<"x", "l">>, <<"2", "x", "l">>, <<"3", "x", "l">>,
               <<"f", "u", "l", "l">>>>, <<>>)
    \o Products(<<<<"b", "o", "r", "d", "e", "r", "-">>>>,
                <<<<"s", "o", "l", "i", "d">>, <<"d", "a", "s", "h", "e", "d">>, <<"d", "o", "t", "t", "e", "d">>, <<"d", "o", "u", "b", "l", "e">>, <<"h", "i", "d", "d", "e", "n">>,
                  <<"n", "o", "n", "e">>>>, <<>>)

\* tailwind-hardcoded-colors (critical): (bg|text|border)-(name)(?:-\d+)?
NamedBackgrounds ==
    <<<<"r", "e", "d">>, <<"b", "l", "u", "e">>, <<"g", "r", "e", "e", "n">>, <<"y", "e", "l", "l", "o", "w">>, <<"g", "r", "a", "y">>, <<"g", "r", "e", "y">>,
      <<"p", "u", "r", "p", "l", "e">>, <<"o", "r", "a", "n", "g", "e">>, <<"p", "i", "n", "k">>, <<"b", "r", "o", "w", "n">>, <<"c", "y", "a", "n">>, <<"m", "a", "g", "e", "n", "t", "a">>,
      <<"b", "l", "a", "c", "k">>, <<"w", "h", "i", "t", "e">>, <<"t", "r", "a", "n", "s", "p", "a", "r", "e", "n", "t">>>>
NamedForegrounds ==
    <<<<"r", "e", "d">>, <<"b", "l", "u", "e">>, <<"g", "r", "e", "e", "n">>, <<"y", "e", "l", "l", "o", "w">>, <<"g", "r", "a", "y">>, <<"g", "r", "e", "y">>,
      <<"p", "u", "r", "p", "l", "e">>, <<"o", "r", "a", "n", "g", "e">>, <<"p", "i", "n", "k">>, <<"b", "r", "o", "w", "n">>, <<"c", "y", "a", "n">>, <<"m", "a", "g", "e", "n", "t", "a">>,
      <<"b", "l", "a", "c", "k">>, <<"w", "h", "i", "t", "e">>>>
NamedColorUtilities ==
    Products(<<<<"b", "g", "-">>>>, NamedBackgrounds, <<>>)
    \o Products(<<<<"t", "e", "x", "t", "-">>, <<"b", "o", "r", "d", "e", "r", "-">>>>, NamedForegrounds, <<>>)

\* \[[^\]]+\] at index j: the index past it, or -1
ArbitraryValueEnd(s, j) ==
    LET close == SkipUntil(s, j + 1, {"]"})
    IN  IF StartsWithAt(s, j, <<"[">>) /\ close > j + 1 /\ close < Len(s)
        THEN close + 1 ELSE -1

\* tailwind-arbitrary-values:
\* className\s*=\s*[quote][^quote]*\[[^\]]+\][^quote]*[quote]
\* The bracket opens before the next quote; what it holds may be quotes.
ArbitraryValuesEnd(s, k) ==
    LET open == ClassNameOpenEnd(s, k)
        segment == SkipUntil(s, open, Quotes)
        starts == {j \in open..(segment - 1) :
                      /\ ArbitraryValueEnd(s, j) >= 0
                      /\ SkipUntil(s, ArbitraryValueEnd(s, j), Quotes) < Len(s)}
    IN  IF open < 0 \/ starts = {} THEN -1
        ELSE LET j == CHOOSE i \in starts : \A h \in starts : i >= h
             IN  SkipUntil(s, ArbitraryValueEnd(s, j), Quotes) + 1

\* (bg|text|border)-\[#[0-9a-fA-F]{3,6}\] or (bg|text|border)-\[rgb\([^)]+\)\]
\* at index j: the index past it, or -1
ArbitraryColorTokenEnd(s, j) ==
    LET prefix == FirstLiteralAt(s, j, ColorUtilityPrefixes)
        bracket == j + Len(prefix)
        hexEnd == HexColorEnd(s, bracket + 1)
        rgbClose == SkipUntil(s, bracket + 5, {")"})
    IN  IF prefix = <<>> \/ ~StartsWithAt(s, bracket, <<"[">>) THEN -1
        ELSE IF hexEnd >= 0 /\ StartsWithAt(s, hexEnd, <<"]">>) THEN hexEnd + 1
        ELSE IF /\ StartsWithAt(s, bracket + 1, <<"r", "g", "b", "(">>)
                /\ rgbClose > bracket + 5
                /\ StartsWithAt(s, rgbClose, <<")", "]">>)
        THEN rgbClose + 2
        ELSE -1

\* the letters and the dash: [a-zA-Z-]
ColorTokenChars == Letters \cup {"-"}

\* (bg|text|border)-color-(?!(?:approved))[a-zA-Z-]+ at index j, approved
\* being the alternation of the approved colors (empty for the catalog
\* entry, which has no lookahead): the index past the shortest token, or -1
ColorTokenEnd(s, j, approved, guarded) ==
    LET prefix == FirstLiteralAt(s, j, Products(ColorUtilityPrefixes, <<<<"c", "o", "l", "o", "r", "-">>>>, <<>>))
        name == j + Len(prefix)
    IN  IF /\ prefix # <<>>
           /\ name < Len(s)
           /\ s[name + 1] \in ColorTokenChars
           /\ ~(guarded /\ \E i \in 1..Len(approved) : StartsWithAt(s, name, approved[i]))
        THEN name + 1 ELSE -1

\* approvedColors.join("|") standing in (?:...): with no color the group
\* matches the empty text
ApprovedAlternatives(approved) == IF approved = <<>> THEN <<<<>>>> ELSE approved

\* tailwindChecker.unapprovedColorTokens, from createTailwindColorViolationChecker
UnapprovedColorTokensEnd(s, k, approved) ==
    IF ~StartsWithAt(s, k, <<"c", "l", "a", "s", "s", "N", "a", "m", "e">>) THEN -1
    ELSE ClassNameLineEnd(s, k,
             [j \in 0..Len(s) |->
                 ColorTokenEnd(s, j, ApprovedAlternatives(approved), TRUE)])

\* tailwindChecker.approvedColorTokens: (?:bg-|text-|border-)(?:approved)
ApprovedColorTokensEnd(s, k, approved) ==
    LET prefix == FirstLiteralAt(s, k, ColorUtilityPrefixes)
        color == FirstLiteralAt(s, k + Len(prefix), approved)
    IN  IF prefix = <<>> THEN -1
        ELSE IF approved = <<>> THEN k + Len(prefix)
        ELSE IF color = <<>> THEN -1
        ELSE k + Len(prefix) + Len(color)

\* the className entries of the catalog
ClassNamePatternEnd(matcher, s, k) ==
    IF ~StartsWithAt(s, k, <<"c", "l", "a", "s", "s", "N", "a", "m", "e">>) THEN -1
    ELSE CASE matcher = "tailwind-hardcoded-colors" ->
                ClassNameSegmentEnd(s, k,
                    [j \in 0..Len(s) |->
                        LiteralTokenEnd(s, j,
                            Products(ColorUtilityPrefixes, TailwindPalette, <<"-">>),
                            Digits)])
           [] matcher = "tailwind-hardcoded-spacing" ->
                ClassNameSegmentEnd(s, k,
                    [j \in 0..Len(s) |-> LiteralTokenEnd(s, j, SpacingUtilities, Digits)])
           [] matcher = "tailwind-hardcoded-sizing" ->
                ClassNameSegmentEnd(s, k,
                    [j \in 0..Len(s) |-> LiteralTokenEnd(s, j, SizingUtilities, Digits)])
           [] matcher = "tailwind-hardcoded-typography" ->
                ClassNameSegmentEnd(s, k,
                    [j \in 0..Len(s) |-> LiteralTokenEnd(s, j, TypographyUtilities, {})])
           [] matcher = "tailwind-hardcoded-borders" ->
                ClassNameSegmentEnd(s, k,
                    [j \in 0..Len(s) |->
                        MinEnd(LiteralTokenEnd(s, j, <<<<"b", "o", "r", "d", "e", "r", "-">>>>, Digits),
                               LiteralTokenEnd(s, j, BorderUtilities, {}))])
           [] matcher = "tailwind-arbitrary-values" -> ArbitraryValuesEnd(s, k)
           [] matcher = "tailwind-named-colors" ->
                ClassNameLineEnd(s, k,
                    [j \in 0..Len(s) |-> LiteralTokenEnd(s, j, NamedColorUtilities, {})])
           [] matcher = "tailwind-arbitrary-color-values" ->
                ClassNameLineEnd(s, k,
                    [j \in 0..Len(s) |-> ArbitraryColorTokenEnd(s, j)])
           [] matcher = "tailwind-unapproved-color-tokens" ->
                ClassNameLineEnd(s, k,
                    [j \in 0..Len(s) |-> ColorTokenEnd(s, j, <<>>, FALSE)])
           [] OTHER -> -1

----------------------------------------------------------------------------
(* The approved color loader (lib engine): loadApprovedTailwindColors and   *)
(* its module-level cache.                                                  *)
(*                                                                         *)
(* A configuration is a record; a key the project did not set is absent     *)
(* from its domain.  A file system gives, for each path, the text of the    *)
(* file or NoSuchFile.                                                      *)

\* the value undefined, as Null a value no text equals
Undefined == <<"undefined">>

\* the array-typed variable holding null
NullList == <<Null>>

\* what fs.readFileSync finds at a path where no readable file stands
NoSuchFile == <<"ENOENT">>

\* the result of a JSON.parse or Object.keys that threw
Thrown == <<<<"throw">>>>

\* the list assigned in the no-path branch and in the catch branch
FallbackApprovedColors ==
    <<<<"c", "o", "l", "o", "r", "-", "t", "e", "x", "t", "-", "b", "r", "a", "n", "d">>, <<"c", "o", "l", "o", "r", "-", "t", "e", "x", "t", "-", "p", "r", "i", "m", "a", "r", "y">>, <<"c", "o", "l", "o", "r", "-", "t", "e", "x", "t", "-", "s", "e", "c", "o", "n", "d", "a", "r", "y">>,
      <<"c", "o", "l", "o", "r", "-", "f", "i", "l", "l", "-", "b", "r", "a", "n", "d">>, <<"c", "o", "l", "o", "r", "-", "f", "i", "l", "l", "-", "s", "u", "r", "f", "a", "c", "e">>, <<"c", "o", "l", "o", "r", "-", "b", "o", "u", "n", "d", "a", "r", "y", "-", "b", "o", "r", "d", "e", "r">>>>

\* config?.designTokenConfig?.tokensPath
TokensPath(cfg) ==
    IF "designTokenConfig" \notin DOMAIN cfg THEN Undefined
    ELSE IF "tokensPath" \notin DOMAIN cfg.designTokenConfig THEN Undefined
    ELSE cfg.designTokenConfig.tokensPath

\* !configPath
IsFalsyPath(configPath) ==
    configPath = Undefined \/ configPath = Null \/ configPath = <<>>

\* a JSON string starting at index k: the index past its closing quote, or
\* -1 (strings without escapes)
JsonStringEnd(s, k) ==
    LET close == SkipUntil(s, k + 1, {"\""})
    IN  IF StartsWithAt(s, k, <<"\"">>) /\ close < Len(s) THEN close + 1 ELSE -1

\* a JSON number (digits) or string starting at index k: the index past it,
\* or -1
JsonScalarEnd(s, k) ==
    IF JsonStringEnd(s, k) >= 0 THEN JsonStringEnd(s, k)
    ELSE IF SkipClass(s, k, Digits) > k THEN SkipClass(s, k, Digits)
    ELSE -1

\* the members of a JSON object from index k on, the opening brace and the
\* members before k being read: the keys in insertion order, a repeated key
\* keeping its first place, or Thrown on a syntax error
RECURSIVE JsonMemberKeys(_, _, _)
JsonMemberKeys(s, k, keys) ==
    LET keyStart == SkipClass(s, k, Whitespace)
        keyEnd == JsonStringEnd(s, keyStart)
        colon == SkipClass(s, keyEnd, Whitespace)
        valueStart == SkipClass(s, colon + 1, Whitespace)
        valueEnd == JsonScalarEnd(s, valueStart)
        next == SkipClass(s, valueEnd, Whitespace)
        key == Substring(s, keyStart + 1, keyEnd - 1)
        added == IF ArrayIncludes(keys, key) THEN keys ELSE Append(keys, key)
    IN  IF keyEnd < 0 \/ ~StartsWithAt(s, colon, <<":">>) \/ valueEnd < 0
        THEN Thrown
        ELSE IF StartsWithAt(s, next, <<",">>)
        THEN JsonMemberKeys(s, next + 1, added)
        ELSE IF /\ StartsWithAt(s, next, <<"}">>)
                /\ SkipClass(s, next + 1, Whitespace) = Len(s)
        THEN added
        ELSE Thrown

\* Object.keys(JSON.parse(text)) for a text that is a flat object of scalar
\* members, a number, the literal null, or no JSON at all: the key list, or
\* Thrown (JSON.parse throws on a syntax error, Object.keys on null)
ObjectKeysOfJson(text) ==
    LET start == SkipClass(text, 0, Whitespace)
        inner == SkipClass(text, start + 1, Whitespace)
        trimmed == Trim(text)
    IN  IF trimmed = <<"n", "u", "l", "l">> THEN Thrown
        ELSE IF trimmed # <<>> /\ SkipClass(trimmed, 0, Digits) = Len(trimmed)
        THEN <<>>
        ELSE IF ~StartsWithAt(text, start, <<"{">>) THEN Thrown
        ELSE IF /\ StartsWithAt(text, inner, <<"}">>)
                /\ SkipClass(text, inner + 1, Whitespace) = Len(text)
        THEN <<>>
        ELSE JsonMemberKeys(text, start + 1, <<>>)

\* the try block: Object.keys(JSON.parse(fs.readFileSync(fullPath))), or
\* Thrown when any of the three throws
ReadTokenKeys(files, configPath) ==
    IF configPath \notin DOMAIN files THEN Thrown
    ELSE IF files[configPath] = NoSuchFile THEN Thrown
    ELSE ObjectKeysOfJson(files[configPath])

\* the loader that consults no cache
LoadApprovedTailwindColorsUncached(cache, last, files, configPath) ==
    IF IsFalsyPath(configPath)
    THEN [cache |-> FallbackApprovedColors, last |-> configPath, reads |-> 0,
          result |-> FallbackApprovedColors]
    ELSE LET keys == ReadTokenKeys(files, configPath)
             colors == IF keys = Thrown THEN FallbackApprovedColors ELSE keys
         IN  [cache |-> colors, last |-> configPath, reads |-> 1,
              result |-> colors]

\* the loader whose catch branch rethrows: a failed read leaves the cache as
\* it was and returns no list
LoadApprovedTailwindColorsRethrowing(cache, last, files, configPath) ==
    IF cache # NullList /\ last = configPath
    THEN [cache |-> cache, last |-> last, reads |-> 0, result |-> cache]
    ELSE IF IsFalsyPath(configPath)
    THEN [cache |-> FallbackApprovedColors, last |-> configPath, reads |-> 0,
          result |-> FallbackApprovedColors]
    ELSE LET keys == ReadTokenKeys(files, configPath)
         IN  IF keys = Thrown
             THEN [cache |-> cache, last |-> last, reads |-> 1, result |-> Thrown]
             ELSE [cache |-> keys, last |-> configPath, reads |-> 1,
                   result |-> keys]

\* the loader whose catch branch caches the fallback list and leaves
\* lastConfigPath as it was
LoadApprovedTailwindColorsStalePath(cache, last, files, configPath) ==
    IF cache # NullList /\ last = configPath
    THEN [cache |-> cache, last |-> last, reads |-> 0, result |-> cache]
    ELSE IF IsFalsyPath(configPath)
    THEN [cache |-> FallbackApprovedColors, last |-> configPath, reads |-> 0,
          result |-> FallbackApprovedColors]
    ELSE LET keys == ReadTokenKeys(files, configPath)
         IN  IF keys = Thrown
             THEN [cache |-> FallbackApprovedColors, last |-> last, reads |-> 1,
                   result |-> FallbackApprovedColors]
             ELSE [cache |-> keys, last |-> configPath, reads |-> 1,
                   result |-> keys]

\* loadApprovedTailwindColors called with a configuration whose token path is
\* configPath, the module-level variables holding cache and last: their new
\* values, the number of readFileSync calls made, and the list returned
LoadApprovedTailwindColors(cache, last, files, configPath) ==
    IF cache # NullList /\ last = configPath
    THEN [cache |-> cache, last |-> last, reads |-> 0, result |-> cache]
    ELSE IF IsFalsyPath(configPath)
    THEN [cache |-> FallbackApprovedColors, last |-> configPath, reads |-> 0,
          result |-> FallbackApprovedColors]
    ELSE LET keys == ReadTokenKeys(files, configPath)
             colors == IF keys = Thrown THEN FallbackApprovedColors ELSE keys
         IN  [cache |-> colors, last |-> configPath, reads |-> 1,
              result |-> colors]

----------------------------------------------------------------------------
(* VIOLATION_PATTERNS in catalog order, and extractViolations.              *)
(*                                                                         *)
(* matcher names the regular expression of the entry.  The entries whose    *)
(* matcher is "templateExpression", "classNameTemplate" or "themeObject"    *)
(* have regular expressions that match only text holding the literal ${     *)
(* (the first two) or theme: respectively.  validator names the entry's     *)
(* isValidViolation ("none" when the entry declares none).                  *)

Rule(type, severity, matcher, validator) ==
    [type |-> type, severity |-> severity, matcher |-> matcher,
     validator |-> validator]

VIOLATION_PATTERNS ==
    << Rule("hardcoded-color", "high", "hardcoded-color", "color"),
       Rule("tailwind-hardcoded-colors", "high", "tailwind-hardcoded-colors", "none"),
       Rule("tailwind-hardcoded-spacing", "medium", "tailwind-hardcoded-spacing", "none"),
       Rule("tailwind-hardcoded-sizing", "low", "tailwind-hardcoded-sizing", "none"),
       Rule("tailwind-hardcoded-typography", "medium", "tailwind-hardcoded-typography", "none"),
       Rule("tailwind-hardcoded-borders", "low", "tailwind-hardcoded-borders", "none"),
       Rule("tailwind-arbitrary-values", "high", "tailwind-arbitrary-values", "none"),
       Rule("hardcoded-layout-positioning", "medium", "hardcoded-layout-positioning", "property"),
       Rule("hardcoded-margin-padding", "medium", "hardcoded-margin-padding", "property"),
       Rule("hardcoded-font-size", "medium", "hardcoded-font-size", "property"),
       Rule("hardcoded-border-radius", "low", "hardcoded-border-radius", "property"),
       Rule("hardcoded-box-shadow", "low", "hardcoded-box-shadow", "property"),
       Rule("theme-object-box-shadow", "high", "templateExpression", "none"),
       Rule("theme-object-color", "high", "templateExpression", "none"),
       Rule("theme-object-border", "high", "templateExpression", "none"),
       Rule("styled-components-theme-destructure", "high", "templateExpression", "none"),
       Rule("styled-components-multiline-theme-function", "critical", "templateExpression", "none"),
       Rule("styled-components-theme-parameter-destructure", "high", "templateExpression", "none"),
       Rule("theme-colors-access", "high", "templateExpression", "none"),
       Rule("theme-palette-access", "high", "templateExpression", "none"),
       Rule("multiline-theme-destructure", "high", "templateExpression", "none"),
       Rule("template-literal-theme-access", "medium", "templateExpression", "none"),
       Rule("theme-destructuring-colors", "critical", "themeObject", "none"),
       Rule("hardcoded-color-names", "high", "hardcoded-color-names", "colorName"),
       Rule("template-literal-hardcoded-colors", "high", "templateExpression", "none"),
       Rule("mixed-theme-hardcoded-colors", "high", "templateExpression", "none"),
       Rule("js-object-layout-positioning", "medium", "js-object-layout-positioning", "none"),
       Rule("js-object-margin-padding", "medium", "js-object-margin-padding", "none"),
       Rule("js-object-hardcoded-font-size", "medium", "js-object-hardcoded-font-size", "none"),
       Rule("js-object-hardcoded-color", "high", "js-object-hardcoded-color", "none"),
       Rule("complex-theme-destructuring", "critical", "templateExpression", "none"),
       Rule("tailwind-hardcoded-colors", "critical", "tailwind-named-colors", "none"),
       Rule("tailwind-arbitrary-color-values", "critical", "tailwind-arbitrary-color-values", "none"),
       Rule("tailwind-unapproved-color-tokens", "high", "tailwind-unapproved-color-tokens", "none"),
       Rule("tailwind-template-literal-hardcoded-colors", "critical", "classNameTemplate", "none"),
       Rule("tailwind-conditional-hardcoded-colors", "high", "classNameTemplate", "none") >>

\* the literal a text must hold for a matcher that is not spelled out to
\* match it
RequiredLiteral(matcher) ==
    CASE matcher = "templateExpression" -> <<"$", "{">>
      [] matcher = "classNameTemplate" -> <<"$", "{">>
      [] matcher = "themeObject" -> <<"t", "h", "e", "m", "e", ":">>
      [] OTHER -> <<>>

\* the texts on which every matcher of the catalog is determined: those
\* holding none of the required literals
InCatalogFragment(s) ==
    \A i \in 1..Len(VIOLATION_PATTERNS) :
        LET lit == RequiredLiteral(VIOLATION_PATTERNS[i].matcher)
        IN  lit # <<>> => ~Includes(s, lit)

\* index past the match of the entry's regular expression starting at k, or
\* -1; for text in the catalog fragment
PatternMatchEnd(matcher, s, k) ==
    CASE matcher = "hardcoded-color" -> HardcodedColorEnd(s, k)
      [] matcher = "hardcoded-layout-positioning" ->
            StylesheetValueEnd(s, k, PositioningProperties, LengthUnits)
      [] matcher = "hardcoded-margin-padding" ->
            StylesheetValueEnd(s, k, SpacingProperties, PixelUnit)
      [] matcher = "hardcoded-font-size" -> PixelDeclarationEnd(s, k, <<"f", "o", "n", "t", "-", "s", "i", "z", "e">>)
      [] matcher = "hardcoded-border-radius" -> PixelDeclarationEnd(s, k, <<"b", "o", "r", "d", "e", "r", "-", "r", "a", "d", "i", "u", "s">>)
      [] matcher = "hardcoded-box-shadow" -> BoxShadowEnd(s, k)
      [] matcher = "hardcoded-color-names" -> HardcodedColorNameEnd(s, k)
      [] matcher = "js-object-layout-positioning" ->
            JsObjectValueEnd(s, k, PositioningProperties, LengthUnits, TRUE)
      [] matcher = "js-object-margin-padding" ->
            JsObjectValueEnd(s, k, SpacingProperties, PixelUnit, FALSE)
      [] matcher = "js-object-hardcoded-font-size" ->
            JsObjectValueEnd(s, k, <<<<"f", "o", "n", "t", "S", "i", "z", "e">>>>, PixelUnit, FALSE)
      [] matcher = "js-object-hardcoded-color" -> JsObjectColorEnd(s, k)
      [] OTHER -> ClassNamePatternEnd(matcher, s, k)

\* the matches of catalog entry i in the text, in order: the exec loop,
\* the search starting at the index from that the pattern's lastIndex holds
PatternMatchesFrom(i, s, from) ==
    LET matcher == VIOLATION_PATTERNS[i].matcher
    IN  IF RequiredLiteral(matcher) # <<>> THEN <<>>
        ELSE ExecAllFrom(s, from,
                         [k \in 0..Len(s) |-> PatternMatchEnd(matcher, s, k)])

\* the exec loop of a pattern whose lastIndex is 0
PatternMatches(i, s) == PatternMatchesFrom(i, s, 0)

\* pattern.isValidViolation(match[0], content, match.index, config)
IsValidViolation(validator, match, text, matchIndex, cfg) ==
    CASE validator = "color" ->
            /\ ~IsInsideCssVariableFallback(match, text, matchIndex)
            /\ ~IsColorPropertyIgnored(match, text, matchIndex, cfg)
      [] validator = "property" ->
            /\ ~Includes(match, <<"v", "a", "r", "(">>)
            /\ ~IsPropertyIgnored(match, cfg)
      [] validator = "colorName" ->
            /\ ~IsInsideCssVariableFallback(match, text, matchIndex)
            /\ ~IsPropertyIgnored(match, cfg)
      [] OTHER -> TRUE

\* the exec loop with the validator test removed: every match is pushed
KeepsEveryMatch(rule, match, text, matchIndex, cfg) == TRUE

\* the negation of the loop's continue condition
KeepsMatch(rule, match, text, matchIndex, cfg) ==
    ~(/\ rule.validator # "none"
      /\ ~IsValidViolation(rule.validator, match, text, matchIndex, cfg))

\* content.substring(0, index).split("\n").length
LineNumber(s, index) == CountChar(Substring(s, 0, index), "\n") + 1

\* a column counted from 0
ColumnFromZero(s, index) == index - LastIndexOf(s, <<"\n">>, index) - 1

\* index - content.lastIndexOf("\n", index)
Column(s, index) == index - LastIndexOf(s, <<"\n">>, index)

\* content.split("\n")
RECURSIVE SplitLines(_)
SplitLines(s) ==
    LET at == IndexOf(s, <<"\n">>, 0)
    IN  IF at < 0 THEN <<s>>
        ELSE <<Substring(s, 0, at)>> \o SplitLines(Substring(s, at + 1, Len(s)))

\* Array.prototype.join("\n")
RECURSIVE JoinLines(_)
JoinLines(ls) ==
    IF ls = <<>> THEN <<>>
    ELSE IF Len(ls) = 1 THEN ls[1]
    ELSE ls[1] \o <<"\n">> \o JoinLines(Tail(ls))

\* the decimal digits of a natural number, as a template literal prints it
DigitSeq == <<"0", "1", "2", "3", "4", "5", "6", "7", "8", "9">>
RECURSIVE ToDecimal(_)
ToDecimal(n) ==
    IF n < 10 THEN <<DigitSeq[n + 1]>>
    ELSE ToDecimal(n \div 10) \o <<DigitSeq[(n % 10) + 1]>>

\* The arrow character (U+2192) of the marker; the atom "RARR" stands for it.
RightArrow == "RARR"

\* marker of the violating line and of the lines around it
ContextMarker(isViolating) == IF isViolating THEN <<RightArrow, " ">> ELSE <<" ", " ">>

\* getFullContext(lines, lineIndex, contextLines)
GetFullContext(lines, lineIndex, contextLines) ==
    LET start == Max(0, lineIndex - contextLines)
        end == Min(Len(lines), lineIndex + contextLines + 1)
    IN  JoinLines([idx \in 1..(end - start) |->
                      ContextMarker(start + idx - 1 = lineIndex)
                      \o ToDecimal(start + idx) \o <<":", " ">>
                      \o lines[start + idx]])

\* lines[lineNumber - 1] || ""
LineContent(lines, lineNumber) ==
    IF lineNumber >= 1 /\ lineNumber <= Len(lines) THEN lines[lineNumber] ELSE <<>>

\* the record pushed for a match (message and suggestion are texts fixed
\* by the type)
Violation(type, severity, s, m) ==
    [type |-> type, severity |-> severity, line |-> LineNumber(s, m.index),
     column |-> Column(s, m.index),
     context |-> Trim(LineContent(SplitLines(s), LineNumber(s, m.index))),
     fullContext |-> GetFullContext(SplitLines(s), LineNumber(s, m.index) - 1, 2),
     match |-> m.text]

\* the violations pushed for catalog entry i
RECURSIVE PushMatches(_, _, _, _, _)
PushMatches(rule, ms, n, s, cfg) ==
    IF n > Len(ms) THEN <<>>
    ELSE (IF KeepsMatch(rule, ms[n].text, s, ms[n].index, cfg)
          THEN <<Violation(rule.type, rule.severity, s, ms[n])>>
          ELSE <<>>)
         \o PushMatches(rule, ms, n + 1, s, cfg)

\* VIOLATION_PATTERNS.forEach(...) from entry i on, indexes[n] being the
\* lastIndex of entry n's pattern when the loop starts
RECURSIVE CatalogViolationsFrom(_, _, _, _)
CatalogViolationsFrom(i, s, cfg, indexes) ==
    IF i > Len(VIOLATION_PATTERNS) THEN <<>>
    ELSE PushMatches(VIOLATION_PATTERNS[i], PatternMatchesFrom(i, s, indexes[i]),
                     1, s, cfg)
         \o CatalogViolationsFrom(i + 1, s, cfg, indexes)

\* every module-level pattern as it is after a loop that ran until exec
\* returned null: catalog entries first, theme token patterns after them
THEME_TOKEN_PATTERNS ==
    <<"css-variable", "color-utility", "semantic-color-utility",
      "spacing-utility", "typography-utility", "shadow-utility",
      "rounded-utility">>
PatternIds == 1..(Len(VIOLATION_PATTERNS) + Len(THEME_TOKEN_PATTERNS))
RestingLastIndex == [n \in PatternIds |-> 0]

CatalogViolations(i, s, cfg) == CatalogViolationsFrom(i, s, cfg, RestingLastIndex)

\* \$[a-zA-Z-]+:\s*(?:#[0-9a-fA-F]+|rgb|rgba|[\d.]+(?:px|rem|em))
ScssVariableEnd(s, k) ==
    LET nameEnd == SkipClass(s, k + 1, Letters \cup {"-"})
        value == SkipClass(s, nameEnd + 1, Whitespace)
        hexEnd == SkipClass(s, value + 1, HexDigits)
        numberEnd == SkipClass(s, value, Digits \cup {"."})
        units == {j \in value..numberEnd :
                     j > value /\ FirstLiteralAt(s, j, LengthUnits) # <<>>}
    IN  IF ~(/\ StartsWithAt(s, k, <<"$">>)
             /\ nameEnd > k + 1
             /\ StartsWithAt(s, nameEnd, <<":">>))
        THEN -1
        ELSE IF StartsWithAt(s, value, <<"#">>) /\ hexEnd > value + 1 THEN hexEnd
        ELSE IF StartsWithAt(s, value, <<"r", "g", "b">>) THEN value + 3
        ELSE IF units # {}
        THEN LET j == CHOOSE u \in units : \A h \in units : u >= h
             IN  j + Len(FirstLiteralAt(s, j, LengthUnits))
        ELSE -1

StylesheetFileTypes == {"css", "scss", "sass", "less"}

\* the additional loop for stylesheet file types
ScssViolations(s, ft) ==
    IF ft \notin StylesheetFileTypes THEN <<>>
    ELSE LET ms == ExecAll(s, [k \in 0..Len(s) |-> ScssVariableEnd(s, k)])
         IN  [n \in 1..Len(ms) |->
                 Violation("scss-hardcoded-variable", "medium", s, ms[n])]

\* the loop over tailwindChecker.unapprovedColorTokens
UnapprovedViolations(s, approved) ==
    LET ms == ExecAll(s, [k \in 0..Len(s) |-> UnapprovedColorTokensEnd(s, k, approved)])
    IN  [n \in 1..Len(ms) |->
            Violation("unapproved-tailwind-color", "high", s, ms[n])]

\* extractViolations(content, filePath, config, fileType), for text in the
\* catalog fragment; approved is the list loadApprovedTailwindColors(config)
\* returned
\* a list of violations without those whose location an earlier one has
RECURSIVE WithoutRepeatedSpans(_)
WithoutRepeatedSpans(vs) ==
    IF vs = <<>> THEN <<>>
    ELSE LET front == WithoutRepeatedSpans(SubSeq(vs, 1, Len(vs) - 1))
             last == vs[Len(vs)]
         IN  IF \E n \in 1..Len(front) :
                    front[n].line = last.line /\ front[n].column = last.column
             THEN front ELSE Append(front, last)

\* extractViolations reporting each location once
ExtractViolationsDeduplicated(s, cfg, ft, approved, indexes) ==
    WithoutRepeatedSpans(CatalogViolationsFrom(1, s, cfg, indexes)
                         \o UnapprovedViolations(s, approved)
                         \o ScssViolations(s, ft))

ExtractViolationsFrom(s, cfg, ft, approved, indexes) ==
    CatalogViolationsFrom(1, s, cfg, indexes) \o UnapprovedViolations(s, approved)
    \o ScssViolations(s, ft)

\* extractViolations when every pattern's lastIndex is 0
ExtractViolations(s, cfg, ft, approved) ==
    ExtractViolationsFrom(s, cfg, ft, approved, RestingLastIndex)

----------------------------------------------------------------------------
(* THEME_TOKEN_PATTERNS and extractThemeTokens.                             *)

\* var\(\s*--[^)]+\s*\)
CssVariableTokenEnd(s, k) ==
    LET dashes == SkipClass(s, k + 4, Whitespace)
        close == SkipUntil(s, dashes + 2, {")"})
    IN  IF /\ StartsWithAt(s, k, <<"v", "a", "r", "(">>)
           /\ StartsWithAt(s, dashes, <<"-", "-">>)
           /\ close > dashes + 2
           /\ close < Len(s)
        THEN close + 1 ELSE -1

\* (?:bg-|text-|border-|fill-|stroke-)(?:color-[a-zA-Z-]+)
ColorUtilityTokenEnd(s, k) ==
    LET prefix == FirstLiteralAt(s, k,
                      <<<<"b", "g", "-", "c", "o", "l", "o", "r", "-">>, <<"t", "e", "x", "t", "-", "c", "o", "l", "o", "r", "-">>, <<"b", "o", "r", "d", "e", "r", "-", "c", "o", "l", "o", "r", "-">>,
                        <<"f", "i", "l", "l", "-", "c", "o", "l", "o", "r", "-">>, <<"s", "t", "r", "o", "k", "e", "-", "c", "o", "l", "o", "r", "-">>>>)
        name == k + Len(prefix)
        nameEnd == SkipClass(s, name, ColorTokenChars)
    IN  IF prefix # <<>> /\ nameEnd > name THEN nameEnd ELSE -1

\* one of the prefixes followed by the first of the names that stands there
PrefixedNameEnd(s, k, prefixes, names) ==
    LET prefix == FirstLiteralAt(s, k, prefixes)
        name == FirstLiteralAt(s, k + Len(prefix), names)
    IN  IF prefix # <<>> /\ name # <<>> THEN k + Len(prefix) + Len(name) ELSE -1

\* (?:p|px|py|pt|pb|pl|pr|m|mx|my|mt|mb|ml|mr|gap|space-[xy])-(?:spacing-\w+|\w+-\d+)
\* At one index at most one of the prefixes is followed by the dash.
SpacingUtilityTokenEnd(s, k) ==
    LET hits == {i \in 1..Len(SpacingUtilities) : StartsWithAt(s, k, SpacingUtilities[i])}
        value == k + Len(SpacingUtilities[CHOOSE i \in hits : TRUE])
        named == SkipClass(s, value + 8, WordChars)
        word == SkipClass(s, value, WordChars)
        number == SkipClass(s, word + 1, Digits)
    IN  IF hits = {} THEN -1
        ELSE IF StartsWithAt(s, value, <<"s", "p", "a", "c", "i", "n", "g", "-">>) /\ named > value + 8 THEN named
        ELSE IF word > value /\ StartsWithAt(s, word, <<"-">>) /\ number > word + 1
        THEN number
        ELSE -1

\* index past the match of the named theme token pattern starting at k, or -1
ThemeTokenEnd(matcher, s, k) ==
    CASE matcher = "css-variable" -> CssVariableTokenEnd(s, k)
      [] matcher = "color-utility" -> ColorUtilityTokenEnd(s, k)
      [] matcher = "semantic-color-utility" ->
            PrefixedNameEnd(s, k, ColorUtilityPrefixes,
                <<<<"p", "r", "i", "m", "a", "r", "y">>, <<"s", "e", "c", "o", "n", "d", "a", "r", "y">>, <<"a", "c", "c", "e", "n", "t">>, <<"s", "u", "r", "f", "a", "c", "e">>,
                  <<"b", "a", "c", "k", "g", "r", "o", "u", "n", "d">>>>)
      [] matcher = "spacing-utility" -> SpacingUtilityTokenEnd(s, k)
      [] matcher = "typography-utility" ->
            PrefixedNameEnd(s, k, <<<<"t", "e", "x", "t", "-">>, <<"f", "o", "n", "t", "-">>>>,
                <<<<"x", "s">>, <<"s", "m">>, <<"b", "a", "s", "e">>, <<"l", "g">>, <<"x", "l">>, <<"2", "x", "l">>, <<"3", "x", "l">>,
                  <<"4", "x", "l">>, <<"5", "x", "l">>, <<"6", "x", "l">>>>)
      [] matcher = "shadow-utility" ->
            PrefixedNameEnd(s, k, <<<<"s", "h", "a", "d", "o", "w", "-">>>>,
                <<<<"s", "m">>, <<"m", "d">>, <<"l", "g">>, <<"x", "l">>, <<"2", "x", "l">>, <<"i", "n", "n", "e", "r">>, <<"n", "o", "n", "e">>>>)
      [] matcher = "rounded-utility" ->
            PrefixedNameEnd(s, k, <<<<"r", "o", "u", "n", "d", "e", "d", "-">>>>,
                <<<<"n", "o", "n", "e">>, <<"s", "m">>, <<"m", "d">>, <<"l", "g">>, <<"x", "l">>, <<"2", "x", "l">>, <<"3", "x", "l">>,
                  <<"f", "u", "l", "l">>>>)
      [] OTHER -> -1

\* the texts of a list of matches
MatchTexts(ms) == [n \in 1..Len(ms) |-> ms[n].text]

\* THEME_TOKEN_PATTERNS.forEach(...) from pattern i on: tokens.push(match[0])
RECURSIVE PatternTokensFrom(_, _, _)
PatternTokensFrom(i, s, indexes) ==
    IF i > Len(THEME_TOKEN_PATTERNS) THEN <<>>
    ELSE MatchTexts(ExecAllFrom(s, indexes[Len(VIOLATION_PATTERNS) + i],
             [k \in 0..Len(s) |-> ThemeTokenEnd(THEME_TOKEN_PATTERNS[i], s, k)]))
         \o PatternTokensFrom(i + 1, s, indexes)

\* [...new Set(tokens)]: each text once, at the place of its first occurrence
RECURSIVE Distinct(_)
Distinct(tokens) ==
    IF tokens = <<>> THEN <<>>
    ELSE LET front == Distinct(SubSeq(tokens, 1, Len(tokens) - 1))
             last == tokens[Len(tokens)]
         IN  IF ArrayIncludes(front, last) THEN front ELSE Append(front, last)

\* if (config?.designTokenConfig)
HasDesignTokenConfig(cfg) == "designTokenConfig" \in DOMAIN cfg

\* the loop over checker.approvedColorTokens
ApprovedTokens(s, approved) ==
    MatchTexts(ExecAll(s, [k \in 0..Len(s) |-> ApprovedColorTokensEnd(s, k, approved)]))

\* extractThemeTokens(content, config); approved is the list
\* loadApprovedTailwindColors(config) returns when the configuration has a
\* designTokenConfig
ExtractThemeTokensFrom(s, cfg, approved, indexes) ==
    Distinct(PatternTokensFrom(1, s, indexes)
             \o (IF HasDesignTokenConfig(cfg) THEN ApprovedTokens(s, approved)
                 ELSE <<>>))

\* extractThemeTokens when every pattern's lastIndex is 0
ExtractThemeTokens(s, cfg, approved) ==
    ExtractThemeTokensFrom(s, cfg, approved, RestingLastIndex)

----------------------------------------------------------------------------
(* generateRecommendations.                                                 *)

\* violationsByType[type], 0 standing for the absent key
ViolationsOfType(vs, type) ==
    Cardinality({n \in 1..Len(vs) : vs[n].type = type})

\* the recommendation pushed when the condition holds (its message and
\* action are fixed texts and the count of the violations)
RecommendationIf(condition, priority, type) ==
    IF condition THEN <<[priority |-> priority, type |-> type]>> ELSE <<>>

\* generateRecommendations without the test of fileType
GenerateRecommendationsAnyFileType(vs, tokens, ft) ==
    RecommendationIf(ViolationsOfType(vs, "hardcoded-color") > 0,
                     "high", "color-migration")
    \o RecommendationIf(ViolationsOfType(vs, "tailwind-arbitrary-values") > 0,
                        "high", "tailwind-cleanup")
    \o RecommendationIf(ViolationsOfType(vs, "styled-components-theme") > 0,
                        "medium", "styled-components-migration")
    \o RecommendationIf(Len(tokens) < 3, "medium", "theme-adoption")

\* generateRecommendations(violations, themeTokens, fileType, config)
GenerateRecommendations(vs, tokens, ft) ==
    RecommendationIf(ViolationsOfType(vs, "hardcoded-color") > 0,
                     "high", "color-migration")
    \o RecommendationIf(ViolationsOfType(vs, "tailwind-arbitrary-values") > 0,
                        "high", "tailwind-cleanup")
    \o RecommendationIf(ViolationsOfType(vs, "styled-components-theme") > 0,
                        "medium", "styled-components-migration")
    \o RecommendationIf(ft = "ui-component" /\ Len(tokens) < 3,
                        "medium", "theme-adoption")

----------------------------------------------------------------------------
(* ConfigLoader.loadConfig: the configuration the server hands to the       *)
(* engine.  A configuration is a record of sections (dewConfig,             *)
(* designTokenConfig), each a record, and of the two fields that stand for  *)
(* analysis.violations.ignoreProperties.                                    *)

ConfigSections == {"dewConfig", "designTokenConfig"}

\* DEFAULT_CONFIG, the keys the engine and the loader read
DEFAULT_CONFIG ==
    [dewConfig |-> [tokensPath |-> Null, cssVariablePrefix |-> <<"-", "-">>],
     hasIgnoreProperties |-> FALSE,
     ignoreProperties |-> <<>>]

\* mergeConfigs(base, override): sections are merged key by key, any other
\* value of the override replaces the base's
MergeConfigs(base, override) ==
    [key \in DOMAIN base \cup DOMAIN override |->
        IF key \notin DOMAIN override THEN base[key]
        ELSE IF key \notin ConfigSections \/ key \notin DOMAIN base
        THEN override[key]
        ELSE [field \in DOMAIN base[key] \cup DOMAIN override[key] |->
                 IF field \in DOMAIN override[key] THEN override[key][field]
                 ELSE base[key][field]]]

\* autoDetectDewConfig(fallbackPaths): the first fallback path at which a
\* file stands, or null
AutoDetectDewConfig(files, fallbackPaths) ==
    LET found == {i \in 1..Len(fallbackPaths) :
                     /\ fallbackPaths[i] \in DOMAIN files
                     /\ files[fallbackPaths[i]] # NoSuchFile}
    IN  IF found = {} THEN Null
        ELSE fallbackPaths[CHOOSE i \in found : \A h \in found : i <= h]

\* the fallbackPaths of DEFAULT_CONFIG
DefaultFallbackPaths ==
    <<<<"l", "i", "b", "/", "a", "u", "t", "o", "f", "i", "x", "-", "r", "u", "l", "e", "s", "/", "d", "e", "w", "S", "t", "y", "l", "e", "s", "/", "c", "o", "l", "o", "r", "s", ".", "c", "s", "s">>,
      <<"l", "i", "b", "/", "a", "u", "t", "o", "f", "i", "x", "-", "r", "u", "l", "e", "s", "/", "d", "e", "w", "S", "t", "y", "l", "e", "s", "/", "n", "u", "m", "b", "e", "r", "s", ".", "c", "s", "s">>,
      <<"s", "r", "c", "/", "s", "t", "y", "l", "e", "s", "/", "t", "o", "k", "e", "n", "s", ".", "j", "s", "o", "n">>>>

\* loadConfig(): the defaults merged with the project's configuration, and
\* the token path detected when the project names none
LoadConfig(files, userConfig) ==
    LET merged == MergeConfigs(DEFAULT_CONFIG, userConfig)
    IN  IF IsFalsyPath(merged.dewConfig.tokensPath)
        THEN [merged EXCEPT !.dewConfig.tokensPath =
                                AutoDetectDewConfig(files, DefaultFallbackPaths)]
        ELSE merged

----------------------------------------------------------------------------
(* The module-level state an audit reads and writes: the lastIndex of every *)
(* module-level pattern and the approved color cache.                       *)

\* ends[k] for the module-level pattern n: catalog entries first, theme
\* token patterns after them
PatternEnds(n, s) ==
    IF n <= Len(VIOLATION_PATTERNS)
    THEN [k \in 0..Len(s) |->
             IF RequiredLiteral(VIOLATION_PATTERNS[n].matcher) # <<>> THEN -1
             ELSE PatternMatchEnd(VIOLATION_PATTERNS[n].matcher, s, k)]
    ELSE [k \in 0..Len(s) |->
             ThemeTokenEnd(THEME_TOKEN_PATTERNS[n - Len(VIOLATION_PATTERNS)], s, k)]

\* lastIndex of a pattern left where its last match ended
LastIndexKeptAfterLoop(s, from, ends) ==
    LET ms == ExecAllFrom(s, from, ends)
    IN  IF ms = <<>> THEN from
        ELSE ms[Len(ms)].index + Len(ms[Len(ms)].text)

\* lastIndex of a pattern after while ((match = pattern.exec(content)) !==
\* null): the exec that returned null has reset it
LastIndexAfterLoop(s, from, ends) == 0

\* the second loadApprovedTailwindColors of an audit, made by
\* extractThemeTokens when the configuration has a designTokenConfig
TokenLoad(first, files, cfg) ==
    IF HasDesignTokenConfig(cfg)
    THEN LoadApprovedTailwindColors(first.cache, first.last, files, TokensPath(cfg))
    ELSE [first EXCEPT !.reads = 0]

----------------------------------------------------------------------------
(* The scorers as pure functions: every input of the bounded domain is      *)
(* drawn by the initial condition and one action applies the function.      *)

\* a violation as the scorer reads it
ScoredViolation(severity) == [type |-> "rule", severity |-> severity]

ViolationLists(maxLen) ==
    UNION {[1..n -> {ScoredViolation(s) : s \in Severities}] : n \in 0..maxLen}

\* n distinct theme tokens
TokenList(n) == [i \in 1..n |-> <<"-", "-", "t">> \o [j \in 1..i |-> "x"]]

LibContents == {<<>>, <<"x">>}

ScriptsContents ==
    {<<>>,
     <<"x">>,
     <<"a", ":", " ", "b", ";">>,
     <<"a", ":", " ", "b", ";", " ", "c", ":", " ", "d", ";", " ", "e", ":", " ", "f", ";", " ", "g", ":", " ", "h", ";">>,
     <<"m", "a", "r", "g", "i", "n", ":", " ", "'", "4", "p", "x", "'">>,
     <<Backquote, "c", "o", "l", "o", "r", Backquote>>,
     <<"e", "m", "o", "t", "i", "o", "n">>,
     <<"s", "t", "y", "l", "e", "=", "{", "{", "c", "o", "l", "o", "r", ":", " ", "c", "}", "}", " ", "a", ":", " ", "b", ";">>}

InitScore ==
    /\ pc = "input"
    /\ filePath = NoValue
    /\ config = NoValue
    /\ coverage = NoValue
    /\ status = NoValue
    /\ scriptsCoverage = NoValue
    /\ regexMatch = NoValue
    /\ insideFallback = NoValue
    /\ ProcessUnused
    /\ ServiceUnused
    /\ \/ /\ content \in LibContents
          /\ violations \in ViolationLists(MaxViolations)
          /\ themeTokens \in {TokenList(n) : n \in 0..MaxThemeTokens}
          /\ fileType \in FileTypes
          /\ scriptsFileType = NoValue
       \/ /\ content \in ScriptsContents
          /\ violations \in ViolationLists(MaxScriptsViolations)
          /\ themeTokens \in {TokenList(n) : n \in 0..MaxScriptsTokens}
          /\ fileType = NoValue
          /\ scriptsFileType \in ScriptsFileTypes

\* lib engine: calculateContextualCoverage, then getCoverageStatus
LibScore ==
    /\ pc = "input"
    /\ fileType # NoValue
    /\ coverage' = CalculateContextualCoverage(content, violations, themeTokens, fileType)
    /\ status' = GetCoverageStatus(coverage', fileType)
    /\ pc' = "scored"
    /\ UNCHANGED processVars
    /\ UNCHANGED serviceVars
    /\ UNCHANGED <<regexMatch, insideFallback, content, filePath, config, fileType, violations, themeTokens,
                   scriptsFileType, scriptsCoverage>>

\* scripts engine: calculateContextualCoverage
ScriptsScore ==
    /\ pc = "input"
    /\ scriptsFileType # NoValue
    /\ scriptsCoverage' =
           ScriptsContextualCoverage(content, violations, themeTokens, scriptsFileType)
    /\ pc' = "scored"
    /\ UNCHANGED processVars
    /\ UNCHANGED serviceVars
    /\ UNCHANGED <<regexMatch, insideFallback, content, filePath, config, fileType, violations, themeTokens,
                   coverage, status, scriptsFileType>>

NextScore == LibScore \/ ScriptsScore

SpecScore == InitScore /\ [][NextScore]_vars

(* getCoverageStatus as a pure function of (coverage, fileType). *)

InitStatus ==
    /\ pc = "input"
    /\ content = NoValue
    /\ filePath = NoValue
    /\ config = NoValue
    /\ violations = NoValue
    /\ themeTokens = NoValue
    /\ coverage \in 0..100
    /\ fileType \in FileTypes
    /\ status = NoValue
    /\ scriptsFileType = NoValue
    /\ scriptsCoverage = NoValue
    /\ regexMatch = NoValue
    /\ insideFallback = NoValue
    /\ ProcessUnused
    /\ ServiceUnused

StatusOf ==
    /\ pc = "input"
    /\ status' = GetCoverageStatus(coverage, fileType)
    /\ pc' = "statused"
    /\ UNCHANGED processVars
    /\ UNCHANGED serviceVars
    /\ UNCHANGED <<regexMatch, insideFallback, content, filePath, config, fileType, violations, themeTokens,
                   coverage, scriptsFileType, scriptsCoverage>>

NextStatus == StatusOf

SpecStatus == InitStatus /\ [][NextStatus]_vars

----------------------------------------------------------------------------
(* determineFileType as a pure function of (filePath, content). *)

PathDirs ==
    {<<>>, <<"p", "a", "g", "e", "s", "/">>, <<"s", "r", "c", "/", "p", "a", "g", "e", "/">>, <<"s", "r", "c", "/", "_", "_", "t", "e", "s", "t", "s", "_", "_", "/">>, <<"s", "r", "c", "/", "u", "t", "i", "l", "s", "/">>,
     <<"s", "r", "c", "/", "c", "o", "m", "p", "o", "n", "e", "n", "t", "s", "/">>}
PathStems ==
    {<<"B", "u", "t", "t", "o", "n">>, <<"U", "s", "e", "r", "C", "a", "r", "d">>, <<"a", "p", "i", "S", "e", "r", "v", "i", "c", "e">>, <<"D", "a", "s", "h", "b", "o", "a", "r", "d">>, <<"p", "r", "o", "t", "o", "t", "y", "p", "e", "s">>,
     <<"w", "e", "b", "p", "a", "c", "k", ".", "c", "o", "n", "f", "i", "g">>, <<"A", "p", "p", "L", "a", "y", "o", "u", "t">>, <<"i", "n", "d", "e", "x">>}
PathMarkers == {<<>>, <<".", "t", "e", "s", "t">>, <<".", "s", "p", "e", "c">>, <<".", "s", "t", "o", "r", "i", "e", "s">>, <<".", "m", "o", "d", "u", "l", "e">>, <<".", "d">>}
PathExtensions == {<<".", "c", "s", "s">>, <<".", "S", "C", "S", "S">>, <<".", "l", "e", "s", "s">>, <<".", "j", "s", "x">>, <<".", "t", "s", "x">>, <<".", "t", "s">>, <<".", "j", "s">>}

ClassifierPaths ==
    {d \o s \o m \o e : d \in PathDirs, s \in PathStems, m \in PathMarkers,
                        e \in PathExtensions}

ClassifierContents ==
    {<<>>,
     <<"c", "o", "n", "s", "t", " ", "x", " ", "=", " ", "1">>,
     <<"<", "R", "o", "u", "t", "e", " ", "p", "a", "t", "h", "=", "'", "/", "'", " ", "/", ">">>,
     <<"<", "d", "i", "v", " ", "c", "l", "a", "s", "s", "N", "a", "m", "e", "=", "'", "a", "'", " ", "/", ">">>,
     <<"<", "A", "p", "p", "L", "a", "y", "o", "u", "t", ">">>,
     <<"i", "m", "p", "o", "r", "t", " ", "R", "e", "a", "c", "t", " ", "f", "r", "o", "m", " ", "'", "r", "e", "a", "c", "t", "'">>}

InitClassify ==
    /\ pc = "input"
    /\ filePath \in ClassifierPaths
    /\ content \in ClassifierContents
    /\ config = NoValue
    /\ fileType = NoValue
    /\ violations = NoValue
    /\ themeTokens = NoValue
    /\ coverage = NoValue
    /\ status = NoValue
    /\ scriptsFileType = NoValue
    /\ scriptsCoverage = NoValue
    /\ regexMatch = NoValue
    /\ insideFallback = NoValue
    /\ ProcessUnused
    /\ ServiceUnused

Classify ==
    /\ pc = "input"
    /\ fileType' = DetermineFileType(filePath, content)
    /\ pc' = "classified"
    /\ UNCHANGED processVars
    /\ UNCHANGED serviceVars
    /\ UNCHANGED <<regexMatch, insideFallback, content, filePath, config, violations, themeTokens, coverage,
                   status, scriptsFileType, scriptsCoverage>>

NextClassify == Classify

SpecClassify == InitClassify /\ [][NextClassify]_vars

----------------------------------------------------------------------------
(* isInsideCssVariableFallback as a pure function of a color match and the  *)
(* text around it.  The text is a run of pieces, the color, and a tail.     *)

MaxGuardPieces == 4

GuardPieces ==
    {<<"v", "a", "r", "(", "-", "-", "a">>, <<"V", "a", "r", " ", "(", " ", "-", "-", "b", "_", "1", " ">>, <<"v", "a", "r", "(">>, <<",">>, <<" ">>, <<")">>, <<"(">>, <<"x">>}

GuardTails == {<<>>, <<")">>, <<" ", ")", ";">>, <<",", " ", "x", ")">>}

GuardColor == <<"#", "f", "f", "f">>

RECURSIVE PieceRuns(_)
PieceRuns(n) ==
    IF n = 0 THEN {<<>>}
    ELSE PieceRuns(n - 1)
         \cup {r \o p : r \in PieceRuns(n - 1), p \in GuardPieces}

InitGuard ==
    /\ pc = "input"
    /\ \E before \in PieceRuns(MaxGuardPieces), tail \in GuardTails :
          /\ content = before \o GuardColor \o tail
          /\ regexMatch = [index |-> Len(before), text |-> GuardColor]
    /\ HardcodedColorEnd(content, regexMatch.index) = regexMatch.index + Len(regexMatch.text)
    /\ insideFallback = NoValue
    /\ ProcessUnused
    /\ ServiceUnused
    /\ filePath = NoValue
    /\ config = NoValue
    /\ fileType = NoValue
    /\ violations = NoValue
    /\ themeTokens = NoValue
    /\ coverage = NoValue
    /\ status = NoValue
    /\ scriptsFileType = NoValue
    /\ scriptsCoverage = NoValue

Guard ==
    /\ pc = "input"
    /\ insideFallback' = IsInsideCssVariableFallback(regexMatch.text, content, regexMatch.index)
    /\ pc' = "guarded"
    /\ UNCHANGED processVars
    /\ UNCHANGED serviceVars
    /\ UNCHANGED <<regexMatch, content, filePath, config, fileType, violations,
                   themeTokens, coverage, status, scriptsFileType, scriptsCoverage>>

NextGuard == Guard

SpecGuard == InitGuard /\ [][NextGuard]_vars

----------------------------------------------------------------------------
(* extractViolations as a pure function of (content, config, fileType).     *)
(* The content is a var() fallback written in one of several forms, a plain *)
(* color declaration, or a run of stylesheet declarations and JavaScript    *)
(* object entries.                                                          *)

MaxDeclarations == 2

Spaces(n) == [i \in 1..n |-> " "]

VarWords == {<<"v", "a", "r">>, <<"V", "a", "r">>, <<"V", "A", "R">>}
FallbackColors == {<<"#", "1", "2", "3", "4", "4", "d">>, <<"r", "g", "b", "(", "0", ",", " ", "0", ",", " ", "0", ")">>, <<"r", "g", "b", "a", "(", "0", ",", "0", ",", "0", ",", "0", ".", "5", ")">>}

\* color: var(--color-text-primary, <color>); written with the given letter
\* case of var, with or without whitespace around each token, with or
\* without one level of nesting, and with a run of gap spaces before the
\* color.  varIndex is the index of the var call closest to the color.
FallbackCase(word, spaced, nested, gap, color) ==
    LET sp == IF spaced THEN <<" ">> ELSE <<>>
        wide == IF spaced THEN <<"\n", "\t", " ">> ELSE <<>>
        outer == <<"c", "o", "l", "o", "r", ":", " ">> \o word \o sp \o <<"(">> \o sp
                 \o <<"-", "-", "c", "o", "l", "o", "r", "-", "t", "e", "x", "t", "-", "p", "r", "i", "m", "a", "r", "y">> \o sp \o <<",">> \o wide
        inner == IF nested THEN word \o <<"(", "-", "-", "b", ",">> \o sp ELSE <<>>
        closing == IF nested THEN <<")", ")">> ELSE <<")">>
        before == outer \o inner \o Spaces(gap)
    IN  [text |-> before \o color \o sp \o closing \o <<";">>,
         varIndex |-> IF nested THEN Len(outer) ELSE 7,
         colorIndex |-> Len(before),
         color |-> color]

FallbackGaps == {FallbackContextBefore - 8, FallbackContextBefore - 7}

FallbackCases ==
    {FallbackCase(w, sp, n, 0, c) :
        w \in VarWords, sp \in BOOLEAN, n \in BOOLEAN, c \in FallbackColors}
    \cup {FallbackCase(<<"v", "a", "r">>, FALSE, n, g, <<"#", "1", "2", "3", "4", "4", "d">>) :
            n \in BOOLEAN, g \in FallbackGaps}

PlainColorProperties == {<<"c", "o", "l", "o", "r">>, <<"b", "a", "c", "k", "g", "r", "o", "u", "n", "d", "-", "c", "o", "l", "o", "r">>, <<"b", "a", "c", "k", "g", "r", "o", "u", "n", "d">>}

\* <property>: <color>;
PlainCase(property, spaced, color) ==
    [text |-> property \o <<":">> \o (IF spaced THEN <<" ">> ELSE <<>>) \o color \o <<";">>,
     property |-> property,
     color |-> color]

PlainCases ==
    {PlainCase(p, sp, c) :
        p \in PlainColorProperties, sp \in BOOLEAN, c \in FallbackColors}

StylesheetDeclarations ==
    {<<"m", "a", "r", "g", "i", "n", ":", " ", "1", "6", "p", "x", ";">>, <<"p", "a", "d", "d", "i", "n", "g", ":", " ", "4", "p", "x", " ", "8", "p", "x", ";">>, <<"m", "a", "r", "g", "i", "n", ":", " ", "v", "a", "r", "(", "-", "-", "s", ",", " ", "1", "6", "p", "x", ")", ";">>,
     <<"M", "a", "r", "g", "i", "n", ":", " ", "1", "6", "p", "x", ";">>, <<"m", "a", "r", "g", "i", "n", ":", " ", "0", " ", "a", "u", "t", "o", ";">>, <<"p", "a", "d", "d", "i", "n", "g", ":", "2", "p", "x">>,
     <<"f", "o", "n", "t", "-", "s", "i", "z", "e", ":", " ", "1", "4", "p", "x", ";">>, <<"b", "o", "r", "d", "e", "r", "-", "r", "a", "d", "i", "u", "s", ":", " ", "8", "p", "x", ";">>,
     <<"b", "o", "x", "-", "s", "h", "a", "d", "o", "w", ":", " ", "0", " ", "0", " ", "4", "p", "x", " ", "#", "0", "0", "0", ";">>, <<"t", "o", "p", ":", " ", "4", "p", "x", ";">>, <<"g", "a", "p", ":", " ", "1", ".", "5", "r", "e", "m", ";">>,
     <<"c", "o", "l", "o", "r", ":", " ", "r", "e", "d", ";">>, <<"b", "a", "c", "k", "g", "r", "o", "u", "n", "d", ":", " ", "r", "e", "d", ";">>, <<"$", "g", "a", "p", ":", " ", "4", "p", "x", ";">>}

JsObjectEntries ==
    {<<"m", "a", "r", "g", "i", "n", ":", " ", "'", "1", "6", "p", "x", "'", ",">>, <<"p", "a", "d", "d", "i", "n", "g", ":", " ", "\"", "4", "p", "x", " ", "8", "p", "x", "\"", ",">>, <<"f", "o", "n", "t", "S", "i", "z", "e", ":", " ", "'", "1", "4", "p", "x", "'", ",">>,
     <<"c", "o", "l", "o", "r", ":", " ", "'", "#", "f", "f", "f", "'", ",">>, <<"t", "o", "p", ":", " ", "'", "4", "p", "x", "'", ",">>, <<"b", "a", "c", "k", "g", "r", "o", "u", "n", "d", "C", "o", "l", "o", "r", ":", " ", "'", "r", "g", "b", "(", "0", ",", "0", ",", "0", ")", "'", ",">>}

Declarations == StylesheetDeclarations \cup JsObjectEntries

LeadingDeclarations ==
    {<<"m", "a", "r", "g", "i", "n", ":", " ", "1", "6", "p", "x", ";">>, <<"c", "o", "l", "o", "r", ":", " ", "#", "f", "f", "f", ";">>, <<"m", "a", "r", "g", "i", "n", ":", " ", "'", "1", "6", "p", "x", "'", ",">>,
     <<"c", "o", "l", "o", "r", ":", " ", "v", "a", "r", "(", "-", "-", "c", ",", " ", "#", "f", "f", "f", ")", ";">>}

\* runs of at most n declarations, one per line, the last one any
\* declaration and the ones before it leading declarations
RECURSIVE LeadingRuns(_)
LeadingRuns(n) ==
    IF n = 0 THEN {<<>>}
    ELSE LeadingRuns(n - 1)
         \cup {r \o d \o <<"\n">> : r \in LeadingRuns(n - 1), d \in LeadingDeclarations}

DeclarationRuns(n) ==
    IF n = 0 THEN {<<>>}
    ELSE {<<>>} \cup {r \o d : r \in LeadingRuns(n - 1), d \in Declarations}

ExtractContents ==
    {f.text : f \in FallbackCases} \cup {p.text : p \in PlainCases}
    \cup DeclarationRuns(MaxDeclarations)

IgnoreLists ==
    {<<>>, <<<<"m", "a", "r", "g", "i", "n">>>>, <<<<"c", "o", "l", "o", "r">>, <<"p", "a", "d", "d", "i", "n", "g">>>>,
     <<<<"f", "o", "n", "t", "-", "s", "i", "z", "e">>, <<"t", "o", "p">>, <<"b", "o", "x", "-", "s", "h", "a", "d", "o", "w">>, <<"b", "o", "r", "d", "e", "r", "-", "r", "a", "d", "i", "u", "s">>, <<"g", "a", "p">>>>}

ExtractConfigs ==
    {[hasIgnoreProperties |-> FALSE, ignoreProperties |-> <<>>]}
    \cup {[hasIgnoreProperties |-> TRUE, ignoreProperties |-> l] : l \in IgnoreLists}

ExtractFileTypes == {"style-file", "scss"}

\* what loadApprovedTailwindColors(cfg) returns for a configuration that
\* names no token path: the fallback list, whatever the cache holds
ApprovedColorsOf(cfg) ==
    LoadApprovedTailwindColors(NullList, Null, <<>>, TokensPath(cfg)).result

InitExtract ==
    /\ pc = "input"
    /\ content \in ExtractContents
    /\ InCatalogFragment(content)
    /\ config \in ExtractConfigs
    /\ fileType \in ExtractFileTypes
    /\ violations = <<>>
    /\ filePath = NoValue
    /\ themeTokens = NoValue
    /\ coverage = NoValue
    /\ status = NoValue
    /\ scriptsFileType = NoValue
    /\ scriptsCoverage = NoValue
    /\ regexMatch = NoValue
    /\ insideFallback = NoValue
    /\ ProcessUnused
    /\ ServiceUnused

Extract ==
    /\ pc = "input"
    /\ violations' = ExtractViolations(content, config, fileType,
                                        ApprovedColorsOf(config))
    /\ pc' = "extracted"
    /\ UNCHANGED processVars
    /\ UNCHANGED serviceVars
    /\ UNCHANGED <<content, filePath, config, fileType, themeTokens, coverage,
                   status, scriptsFileType, scriptsCoverage, regexMatch,
                   insideFallback>>

NextExtract == Extract

SpecExtract == InitExtract /\ [][NextExtract]_vars

----------------------------------------------------------------------------
(* The token loader called repeatedly within one process.  The file system  *)
(* is chosen at the start; each step is one call of                         *)
(* loadApprovedTailwindColors with a configuration chosen for that call.    *)

MaxLoads == 4

\* the paths at which a token file may stand
TokenFilePaths == {<<"a", ".", "j", "s", "o", "n">>, <<"b", ".", "j", "s", "o", "n">>}

\* what may stand at a path: no readable file, a flat object, an empty
\* object, the literal null, a truncated object
TokenFileTexts ==
    {NoSuchFile,
     <<"{", "\"", "c", "o", "l", "o", "r", "-", "f", "i", "l", "l", "-", "b", "r", "a", "n", "d", "\"", ":", " ", "\"", "#", "f", "f", "f", "\"", ",", " ", "\"", "c", "o", "l", "o", "r", "-", "t", "e", "x", "t", "-", "m", "u", "t", "e", "d", "\"", ":", " ", "1", "}">>,
     <<"{", " ", "}">>,
     <<"n", "u", "l", "l">>,
     <<"{", "\"", "c", "o", "l", "o", "r", "-", "f", "i", "l", "l", "-", "b", "r", "a", "n", "d", "\"", ":", " ">>}

\* the configurations handed to a call: nothing about tokens, a token
\* section without a path, and a token section with an empty or a real path
TokenConfigs ==
    {[analysis |-> NoValue],
     [designTokenConfig |-> [cssVariablePrefix |-> <<"-", "-">>]],
     [designTokenConfig |-> [tokensPath |-> <<>>]]}
    \cup {[designTokenConfig |-> [tokensPath |-> p]] : p \in TokenFilePaths}

InitTokens ==
    /\ pc = "loader"
    /\ designTokenColorsCache = NullList
    /\ lastConfigPath = Null
    /\ tokenFiles \in [TokenFilePaths -> TokenFileTexts]
    /\ fileReads = 0
    /\ approvedColors = NullList
    /\ loadCalls = <<>>
    /\ config = [analysis |-> NoValue]
    /\ content = NoValue
    /\ filePath = NoValue
    /\ fileType = NoValue
    /\ violations = NoValue
    /\ themeTokens = NoValue
    /\ coverage = NoValue
    /\ status = NoValue
    /\ scriptsFileType = NoValue
    /\ scriptsCoverage = NoValue
    /\ regexMatch = NoValue
    /\ insideFallback = NoValue
    /\ lastIndex = NoValue
    /\ audits = NoValue
    /\ recommendations = NoValue
    /\ ServiceUnused

\* one call loadApprovedTailwindColors(cfg)
LoadColors ==
    /\ pc = "loader"
    /\ Len(loadCalls) < MaxLoads
    /\ \E cfg \in TokenConfigs :
          LET call == LoadApprovedTailwindColors(designTokenColorsCache,
                          lastConfigPath, tokenFiles, TokensPath(cfg))
          IN  /\ config' = cfg
              /\ designTokenColorsCache' = call.cache
              /\ lastConfigPath' = call.last
              /\ fileReads' = fileReads + call.reads
              /\ approvedColors' = call.result
              /\ loadCalls' = Append(loadCalls,
                                      [path |-> TokensPath(cfg),
                                       reads |-> call.reads,
                                       result |-> call.result,
                                       cached |-> call.cache])
    /\ UNCHANGED <<pc, tokenFiles, content, filePath, fileType, violations,
                   themeTokens, coverage, status, scriptsFileType,
                   scriptsCoverage, regexMatch, insideFallback, lastIndex,
                   audits, recommendations>>
    /\ UNCHANGED serviceVars

NextTokens == LoadColors

SpecTokens == InitTokens /\ [][NextTokens]_vars

----------------------------------------------------------------------------
(* One process auditing files one after the other.  Each step is one        *)
(* analyzeFile of a file of the project with a configuration chosen for     *)
(* that call: the one the server hands over (ConfigLoader.loadConfig of the *)
(* project's configuration) or one written by the caller.                   *)

MaxAudits == 3

\* the token file of the project
ProjectTokensPath == <<"a", ".", "j", "s", "o", "n">>

\* its text
ProjectTokens == <<"{", "\"", "c", "o", "l", "o", "r", "-", "f", "i", "l", "l", "-", "b", "r", "a", "n", "d", "\"", ":", " ", "\"", "#", "f", "f", "f", "\"", ",", " ", "\"", "c", "o", "l", "o", "r", "-", "t", "e", "x", "t", "-", "m", "u", "t", "e", "d", "\"", ":", " ", "1", "}">>

\* the files of the project: path and text
ProjectFiles ==
    {[path |-> <<"t", "h", "e", "m", "e", ".", "s", "c", "s", "s">>, text |-> <<"$", "p", "r", "i", "m", "a", "r", "y", "-", "c", "o", "l", "o", "r", ":", " ", "#", "0", "0", "7", "b", "f", "f", ";">>],
     [path |-> <<"t", "h", "e", "m", "e", ".", "j", "s">>, text |-> <<"$", "p", "r", "i", "m", "a", "r", "y", "-", "c", "o", "l", "o", "r", ":", " ", "#", "0", "0", "7", "b", "f", "f", ";">>],
     [path |-> <<"s", "r", "c", "/", "B", "u", "t", "t", "o", "n", ".", "j", "s", "x">>,
      text |-> <<"<", "d", "i", "v", " ", "c", "l", "a", "s", "s", "N", "a", "m", "e", "=", "\"", "b", "g", "-", "c", "o", "l", "o", "r", "-", "f", "i", "l", "l", "-", "b", "r", "a", "n", "d", "\"", ">">>],
     [path |-> <<"s", "r", "c", "/", "C", "a", "r", "d", ".", "j", "s", "x">>,
      text |-> <<"<", "p", " ", "c", "l", "a", "s", "s", "N", "a", "m", "e", "=", "'", "b", "g", "-", "r", "e", "d", "-", "5", "0", "0", " ", "t", "e", "x", "t", "-", "c", "o", "l", "o", "r", "-", "h", "o", "t", " ", "r", "o", "u", "n", "d", "e", "d", "-", "m", "d", "'", ">", "\n", "m", "a", "r", "g", "i", "n", ":", " ", "'", "1", "6", "p", "x", "'", ",">>]}

\* what a project's configuration file may hold
ProjectConfigs == {[dewConfig |-> [tokensPath |-> ProjectTokensPath]]}

\* what a caller of the engine may hand over
CallerConfigs ==
    {[designTokenConfig |-> [tokensPath |-> ProjectTokensPath],
      hasIgnoreProperties |-> FALSE, ignoreProperties |-> <<>>]}

AuditConfigs(files) ==
    {LoadConfig(files, project) : project \in ProjectConfigs} \cup CallerConfigs

InitAudit ==
    /\ pc = "idle"
    /\ designTokenColorsCache = NullList
    /\ lastConfigPath = Null
    /\ tokenFiles = [p \in {ProjectTokensPath} |-> ProjectTokens]
    /\ fileReads = 0
    /\ approvedColors = NullList
    /\ loadCalls = <<>>
    /\ lastIndex = RestingLastIndex
    /\ audits = <<>>
    /\ recommendations = <<>>
    /\ config = DEFAULT_CONFIG
    /\ content = <<>>
    /\ filePath = <<>>
    /\ fileType = NoValue
    /\ violations = <<>>
    /\ themeTokens = <<>>
    /\ coverage = 0
    /\ status = NoValue
    /\ scriptsFileType = NoValue
    /\ scriptsCoverage = NoValue
    /\ regexMatch = NoValue
    /\ insideFallback = NoValue
    /\ ServiceUnused

\* one call analyzeFile(filePath, cfg): the file is classified, its
\* violations and theme tokens are extracted (each extraction asks for the
\* approved colors), then coverage, status and recommendations are computed
Audit ==
    /\ pc = "idle"
    /\ Len(audits) < MaxAudits
    /\ \E file \in ProjectFiles, cfg \in AuditConfigs(tokenFiles) :
       \E ft \in {DetermineFileType(file.path, file.text)} :
       \E first \in {LoadApprovedTailwindColors(designTokenColorsCache,
                          lastConfigPath, tokenFiles, TokensPath(cfg))} :
       \E vs \in {ExtractViolationsFrom(file.text, cfg, ft, first.result, lastIndex)} :
       \E second \in {TokenLoad(first, tokenFiles, cfg)} :
       \E tokens \in {ExtractThemeTokensFrom(file.text, cfg, second.result, lastIndex)} :
       \E cov \in {CalculateContextualCoverage(file.text, vs, tokens, ft)} :
          /\ content' = file.text
          /\ filePath' = file.path
          /\ config' = cfg
          /\ fileType' = ft
          /\ violations' = vs
          /\ themeTokens' = tokens
          /\ coverage' = cov
          /\ status' = GetCoverageStatus(cov, ft)
          /\ recommendations' = GenerateRecommendations(vs, tokens, ft)
          /\ approvedColors' = first.result
          /\ designTokenColorsCache' = second.cache
          /\ lastConfigPath' = second.last
          /\ fileReads' = fileReads + first.reads + second.reads
          /\ lastIndex' = [n \in PatternIds |->
                              LastIndexAfterLoop(file.text, lastIndex[n],
                                                 PatternEnds(n, file.text))]
          /\ audits' = Append(audits,
                           [content |-> file.text, filePath |-> file.path,
                            config |-> cfg, fileType |-> ft,
                            violations |-> vs,
                            themeTokens |-> tokens,
                            coverage |-> cov,
                            status |-> GetCoverageStatus(cov, ft),
                            approved |-> first.result])
    /\ UNCHANGED <<pc, tokenFiles, loadCalls, scriptsFileType, scriptsCoverage,
                   regexMatch, insideFallback>>
    /\ UNCHANGED serviceVars

NextAudit == Audit

SpecAudit == InitAudit /\ [][NextAudit]_vars

----------------------------------------------------------------------------
(* generateRecommendations as the last step of an analysis: the violations, *)
(* the theme tokens, the file type and the coverage computed from them are  *)
(* drawn by the initial condition and one action applies the function.      *)

MaxReported == 2
MaxFoundTokens == 3

\* the catalog entries whose violations the analysis may hold
ReportedRules ==
    {"hardcoded-color", "hardcoded-margin-padding", "tailwind-arbitrary-values",
     "styled-components-theme-destructure",
     "styled-components-multiline-theme-function",
     "styled-components-theme-parameter-destructure",
     "theme-colors-access", "theme-palette-access"}

\* a violation as generateRecommendations and the scorer read it: the type
\* and the severity of its catalog entry
ReportedViolations ==
    {[type |-> VIOLATION_PATTERNS[i].type,
      severity |-> VIOLATION_PATTERNS[i].severity] :
        i \in {n \in 1..Len(VIOLATION_PATTERNS) :
                  VIOLATION_PATTERNS[n].type \in ReportedRules}}

RecommendFileTypes == {"ui-component", "page-component", "other"}

InitRecommend ==
    /\ pc = "analysed"
    /\ content \in LibContents
    /\ violations \in UNION {[1..n -> ReportedViolations] : n \in 0..MaxReported}
    /\ themeTokens \in {TokenList(n) : n \in 0..MaxFoundTokens}
    /\ fileType \in RecommendFileTypes
    /\ coverage = CalculateContextualCoverage(content, violations, themeTokens, fileType)
    /\ status = GetCoverageStatus(coverage, fileType)
    /\ recommendations = <<>>
    /\ filePath = NoValue
    /\ config = DEFAULT_CONFIG
    /\ scriptsFileType = NoValue
    /\ scriptsCoverage = NoValue
    /\ regexMatch = NoValue
    /\ insideFallback = NoValue
    /\ designTokenColorsCache = NoValue
    /\ lastConfigPath = NoValue
    /\ tokenFiles = NoValue
    /\ fileReads = NoValue
    /\ approvedColors = NoValue
    /\ loadCalls = NoValue
    /\ lastIndex = NoValue
    /\ audits = NoValue
    /\ ServiceUnused

\* const recommendations = generateRecommendations(violations, themeTokens,
\* fileType, config)
Recommend ==
    /\ pc = "analysed"
    /\ recommendations' = GenerateRecommendations(violations, themeTokens, fileType)
    /\ pc' = "recommended"
    /\ UNCHANGED <<content, filePath, config, fileType, violations, themeTokens,
                   coverage, status, scriptsFileType, scriptsCoverage,
                   regexMatch, insideFallback, designTokenColorsCache,
                   lastConfigPath, tokenFiles, fileReads, approvedColors,
                   loadCalls, lastIndex, audits>>
    /\ UNCHANGED serviceVars

NextRecommend == Recommend

SpecRecommend == InitRecommend /\ [][NextRecommend]_vars

----------------------------------------------------------------------------
(* The engine's functions called one after the other on a text with a file  *)
(* type the caller gives and the default configuration: extractViolations,  *)
(* extractThemeTokens, calculateContextualCoverage, getCoverageStatus.      *)

PipelineContents ==
    {<<>>,
     <<"b", "a", "c", "k", "g", "r", "o", "u", "n", "d", ":", " ", "#", "f", "f", "f", "f", "f", "f", ";", "\n", "m", "a", "r", "g", "i", "n", ":", " ", "1", "6", "p", "x", ";">>,
     <<"b", "a", "c", "k", "g", "r", "o", "u", "n", "d", ":", " ", "#", "f", "f", "f", "f", "f", "f", ";">>,
     <<"c", "o", "l", "o", "r", ":", " ", "v", "a", "r", "(", "-", "-", "c", "o", "l", "o", "r", "-", "t", "e", "x", "t", "-", "p", "r", "i", "m", "a", "r", "y", ")", ";", "\n", "m", "a", "r", "g", "i", "n", ":", " ", "v", "a", "r", "(", "-", "-", "s", "p", "a", "c", "i", "n", "g", "-", "m", "d", ")", ";">>,
     <<"m", "a", "r", "g", "i", "n", ":", " ", "1", "6", "p", "x", ";", "\n", "f", "o", "n", "t", "-", "s", "i", "z", "e", ":", " ", "1", "4", "p", "x", ";", "\n", "t", "o", "p", ":", " ", "4", "p", "x", ";", "\n", "b", "o", "r", "d", "e", "r", "-", "r", "a", "d", "i", "u", "s", ":", " ", "8", "p", "x", ";">>,
     <<"<", "d", "i", "v", " ", "c", "l", "a", "s", "s", "N", "a", "m", "e", "=", "\"", "b", "g", "-", "r", "e", "d", "-", "5", "0", "0", " ", "p", "-", "[", "1", "3", "p", "x", "]", "\"", ">">>}

InitPipeline ==
    /\ pc = "extractViolations"
    /\ content \in PipelineContents
    /\ fileType \in FileTypes
    /\ config = DEFAULT_CONFIG
    /\ approvedColors = ApprovedColorsOf(config)
    /\ violations = <<>>
    /\ themeTokens = <<>>
    /\ coverage = NoValue
    /\ status = NoValue
    /\ filePath = NoValue
    /\ scriptsFileType = NoValue
    /\ scriptsCoverage = NoValue
    /\ regexMatch = NoValue
    /\ insideFallback = NoValue
    /\ designTokenColorsCache = NoValue
    /\ lastConfigPath = NoValue
    /\ tokenFiles = NoValue
    /\ fileReads = NoValue
    /\ loadCalls = NoValue
    /\ lastIndex = NoValue
    /\ audits = NoValue
    /\ recommendations = NoValue
    /\ ServiceUnused

PipelineUnused ==
    <<filePath, scriptsFileType, scriptsCoverage, regexMatch, insideFallback,
      designTokenColorsCache, lastConfigPath, tokenFiles, fileReads,
      approvedColors, loadCalls, lastIndex, audits, recommendations>>

\* violations = extractViolations(content, filePath, config, fileType)
PipelineViolations ==
    /\ pc = "extractViolations"
    /\ violations' = ExtractViolations(content, config, fileType, approvedColors)
    /\ pc' = "extractThemeTokens"
    /\ UNCHANGED <<content, fileType, config, themeTokens, coverage, status>>
    /\ UNCHANGED PipelineUnused
    /\ UNCHANGED serviceVars

\* themeTokens = extractThemeTokens(content, config)
PipelineTokens ==
    /\ pc = "extractThemeTokens"
    /\ themeTokens' = ExtractThemeTokens(content, config, approvedColors)
    /\ pc' = "calculateContextualCoverage"
    /\ UNCHANGED <<content, fileType, config, violations, coverage, status>>
    /\ UNCHANGED PipelineUnused
    /\ UNCHANGED serviceVars

\* coverage = calculateContextualCoverage(content, violations, themeTokens,
\* fileType)
PipelineCoverage ==
    /\ pc = "calculateContextualCoverage"
    /\ coverage' = CalculateContextualCoverage(content, violations, themeTokens, fileType)
    /\ pc' = "getCoverageStatus"
    /\ UNCHANGED <<content, fileType, config, violations, themeTokens, status>>
    /\ UNCHANGED PipelineUnused
    /\ UNCHANGED serviceVars

\* status = getCoverageStatus(coverage, fileType)
PipelineStatus ==
    /\ pc = "getCoverageStatus"
    /\ status' = GetCoverageStatus(coverage, fileType)
    /\ pc' = "done"
    /\ UNCHANGED <<content, fileType, config, violations, themeTokens, coverage>>
    /\ UNCHANGED PipelineUnused
    /\ UNCHANGED serviceVars

NextPipeline ==
    \/ PipelineViolations
    \/ PipelineTokens
    \/ PipelineCoverage
    \/ PipelineStatus

SpecPipeline == InitPipeline /\ [][NextPipeline]_vars


----------------------------------------------------------------------------
(* The callers' view of the engine: analyzeFile reads the file itself,      *)
(* auditFile wraps it, auditFiles runs it over a list of paths.  The file   *)
(* system holds a text or nothing at each source path.                      *)

MaxBatch == 3

\* the source paths a caller may name
BatchPaths == {<<"s", "r", "c", "/", "C", "a", "r", "d", ".", "j", "s", "x">>, <<"t", "h", "e", "m", "e", ".", "s", "c", "s", "s">>}

\* what a source path may hold
BatchTexts == {<<"m", "a", "r", "g", "i", "n", ":", " ", "'", "1", "6", "p", "x", "'", ",">>, <<"$", "p", "r", "i", "m", "a", "r", "y", "-", "c", "o", "l", "o", "r", ":", " ", "#", "0", "0", "7", "b", "f", "f", ";">>}

\* config = {} of the default parameter
EmptyConfig == [hasIgnoreProperties |-> FALSE, ignoreProperties |-> <<>>]

\* the lists of paths a caller may hand to auditFiles
RECURSIVE PathLists(_)
PathLists(n) ==
    IF n = 0 THEN {<<>>}
    ELSE PathLists(n - 1) \cup
         {Append(l, p) : l \in {x \in PathLists(n - 1) : Len(x) = n - 1},
                         p \in BatchPaths}

\* fs.readFileSync(filePath, "utf8") throws for a path with no file
ReadFails(files, path) == path \notin DOMAIN files \/ files[path] = NoSuchFile

\* error.message of that throw
ReadErrorMessage(path) ==
    <<"E", "N", "O", "E", "N", "T", ":", " ", "n", "o", " ", "s", "u", "c", "h", " ", "f", "i", "l", "e", " ", "o", "r", " ", "d", "i", "r", "e", "c", "t", "o", "r", "y", ",", " ", "o", "p", "e", "n", " ", "'">> \o path \o <<"'">>

\* the object analyzeFile returns, from the values it has just computed
AnalysisResult ==
    [fileName |-> Basename(filePath), filePath |-> filePath,
     fileType |-> fileType, coverage |-> coverage, status |-> status,
     violations |-> Len(violations),
     violationsList |-> [i \in 1..Len(violations) |->
                            [type |-> violations[i].type,
                             severity |-> violations[i].severity,
                             line |-> violations[i].line,
                             column |-> violations[i].column,
                             context |-> violations[i].context,
                             fullContext |-> violations[i].fullContext]],
     themeTokens |-> themeTokens]

\* the variables one run of analyzeFile's try block writes
analysisVars ==
    <<content, filePath, config, fileType, violations, themeTokens, coverage,
      status, recommendations, approvedColors, designTokenColorsCache,
      lastConfigPath, fileReads, lastIndex>>

\* the try block of analyzeFile(path, cfg) on a file holding text
AnalyzeFile(path, text, cfg) ==
    \E ft \in {DetermineFileType(path, text)} :
    \E first \in {LoadApprovedTailwindColors(designTokenColorsCache,
                       lastConfigPath, tokenFiles, TokensPath(cfg))} :
    \E vs \in {ExtractViolationsFrom(text, cfg, ft, first.result, lastIndex)} :
    \E second \in {TokenLoad(first, tokenFiles, cfg)} :
    \E tokens \in {ExtractThemeTokensFrom(text, cfg, second.result, lastIndex)} :
    \E cov \in {CalculateContextualCoverage(text, vs, tokens, ft)} :
       /\ content' = text
       /\ filePath' = path
       /\ config' = cfg
       /\ fileType' = ft
       /\ violations' = vs
       /\ themeTokens' = tokens
       /\ coverage' = cov
       /\ status' = GetCoverageStatus(cov, ft)
       /\ recommendations' = GenerateRecommendations(vs, tokens, ft)
       /\ approvedColors' = first.result
       /\ designTokenColorsCache' = second.cache
       /\ lastConfigPath' = second.last
       /\ fileReads' = fileReads + first.reads + second.reads
       /\ lastIndex' = [n \in PatternIds |->
                           LastIndexAfterLoop(text, lastIndex[n],
                                              PatternEnds(n, text))]

\* the catch block of analyzeFile: the error is logged and thrown again, so
\* the promise of the async function is rejected with it
AnalyzeFileCatchReturning(error) ==
    [state |-> "fulfilled", value |-> [error |-> error, status |-> "error"]]

AnalyzeFileCatch(error) == [state |-> "rejected", value |-> error]

\* the catch block of auditFiles' loop body
AuditFilesCatchSkipping(rs, path, message) == rs

AuditFilesCatch(rs, path, message) ==
    Append(rs, [fileName |-> Basename(path), filePath |-> path,
                error |-> message, status |-> "error"])

InitBatch ==
    /\ pc = "idle"
    /\ sourceFiles \in [BatchPaths -> BatchTexts \cup {NoSuchFile}]
    /\ filePaths = <<>>
    /\ results = <<>>
    /\ settled = [state |-> "pending"]
    /\ request = [op |-> "none"]
    /\ designTokenColorsCache = NullList
    /\ lastConfigPath = Null
    /\ tokenFiles = << >>
    /\ fileReads = 0
    /\ approvedColors = NullList
    /\ loadCalls = <<>>
    /\ lastIndex = RestingLastIndex
    /\ audits = <<>>
    /\ recommendations = <<>>
    /\ config = EmptyConfig
    /\ content = <<>>
    /\ filePath = <<>>
    /\ fileType = NoValue
    /\ violations = <<>>
    /\ themeTokens = <<>>
    /\ coverage = 0
    /\ status = NoValue
    /\ scriptsFileType = NoValue
    /\ scriptsCoverage = NoValue
    /\ regexMatch = NoValue
    /\ insideFallback = NoValue
    /\ sent = NoValue
    /\ currentAuditData = NoValue
    /\ sharedDefaults = NoValue
    /\ loaded = NoValue

batchRest ==
    <<sourceFiles, tokenFiles, loadCalls, audits, scriptsFileType,
      scriptsCoverage, regexMatch, insideFallback, sent, currentAuditData,
      sharedDefaults, loaded>>

\* auditFile(path): return await analyzeFile(path, {})
AuditFile ==
    /\ pc = "idle"
    /\ \E path \in BatchPaths :
          /\ request' = [op |-> "auditFile", filePath |-> path]
          /\ IF ReadFails(sourceFiles, path)
             THEN /\ settled' = AnalyzeFileCatch(ReadErrorMessage(path))
                  /\ UNCHANGED analysisVars
             ELSE /\ AnalyzeFile(path, sourceFiles[path], EmptyConfig)
                  /\ settled' = [state |-> "fulfilled", value |-> AnalysisResult']
    /\ pc' = "settled"
    /\ UNCHANGED <<filePaths, results>>
    /\ UNCHANGED batchRest

\* auditFiles(list): const results = []
AuditFilesCall ==
    /\ pc = "idle"
    /\ \E list \in PathLists(MaxBatch) : filePaths' = list
    /\ results' = <<>>
    /\ request' = [op |-> "auditFiles", next |-> 1]
    /\ pc' = "auditFiles"
    /\ UNCHANGED <<settled>>
    /\ UNCHANGED analysisVars
    /\ UNCHANGED batchRest

\* one round of for (const filePath of filePaths)
AuditFilesRound ==
    /\ pc = "auditFiles"
    /\ request.next <= Len(filePaths)
    /\ \E path \in {filePaths[request.next]} :
          IF ReadFails(sourceFiles, path)
          THEN /\ results' = AuditFilesCatch(results, path,
                                  AnalyzeFileCatch(ReadErrorMessage(path)).value)
               /\ UNCHANGED analysisVars
          ELSE /\ AnalyzeFile(path, sourceFiles[path], EmptyConfig)
               /\ results' = Append(results, AnalysisResult')
    /\ request' = [request EXCEPT !.next = @ + 1]
    /\ UNCHANGED <<pc, filePaths, settled>>
    /\ UNCHANGED batchRest

\* return results
AuditFilesReturn ==
    /\ pc = "auditFiles"
    /\ request.next > Len(filePaths)
    /\ settled' = [state |-> "fulfilled", value |-> results]
    /\ pc' = "settled"
    /\ UNCHANGED <<filePaths, results, request>>
    /\ UNCHANGED analysisVars
    /\ UNCHANGED batchRest

NextBatch == AuditFile \/ AuditFilesCall \/ AuditFilesRound \/ AuditFilesReturn

SpecBatch == InitBatch /\ [][NextBatch]_vars

----------------------------------------------------------------------------
(* analyzeFile on a file that holds one of the declarations the            *)
(* configuration template lists in its closing comment.                     *)

\* the declarations listed as still flagged
StandaloneDeclarations ==
    {<<"c", "o", "l", "o", "r", ":", " ", "#", "1", "2", "3", "4", "4", "d", ";">>, <<"m", "a", "r", "g", "i", "n", ":", " ", "1", "6", "p", "x", ";">>, <<"f", "o", "n", "t", "-", "s", "i", "z", "e", ":", " ", "1", "4", "p", "x", ";">>,
     <<"b", "o", "r", "d", "e", "r", "-", "r", "a", "d", "i", "u", "s", ":", " ", "8", "p", "x", ";">>, <<"b", "a", "c", "k", "g", "r", "o", "u", "n", "d", ":", " ", "r", "e", "d", ";">>}

\* the declarations listed as not flagged
FallbackDeclarations ==
    {<<"m", "a", "r", "g", "i", "n", ":", " ", "v", "a", "r", "(", "-", "-", "s", "p", "a", "c", "i", "n", "g", "-", "m", "d", ",", " ", "1", "6", "p", "x", ")", ";">>,
     <<"b", "a", "c", "k", "g", "r", "o", "u", "n", "d", ":", " ", "v", "a", "r", "(", "-", "-", "b", "g", ",", " ", "r", "g", "b", "a", "(", "2", "5", "5", ",", " ", "2", "5", "5", ",", " ", "2", "5", "5", ",", " ", "0", ".", "8", ")", ")", ";">>,
     <<"c", "o", "l", "o", "r", ":", " ", "v", "a", "r", "(", "-", "-", "c", "o", "l", "o", "r", "-", "t", "e", "x", "t", "-", "p", "r", "i", "m", "a", "r", "y", ",", " ", "#", "1", "2", "3", "4", "4", "d", ")", ";">>}

\* where the declaration may be kept
DocumentedPaths ==
    {<<"s", "t", "y", "l", "e", "s", ".", "c", "s", "s">>, <<"t", "h", "e", "m", "e", ".", "s", "c", "s", "s">>, <<"s", "r", "c", "/", "B", "u", "t", "t", "o", "n", ".", "j", "s", "x">>, <<"s", "r", "c", "/", "u", "t", "i", "l", "s", "/", "f", "o", "r", "m", "a", "t", ".", "j", "s">>,
     <<"s", "r", "c", "/", "p", "a", "g", "e", "s", "/", "H", "o", "m", "e", ".", "t", "s", "x">>, <<"s", "r", "c", "/", "C", "a", "r", "d", ".", "t", "e", "s", "t", ".", "j", "s">>, <<"s", "r", "c", "/", "t", "y", "p", "e", "s", ".", "t", "s">>}

InitDocumented ==
    /\ pc = "idle"
    /\ \E path \in DocumentedPaths :
          sourceFiles \in [{path} -> StandaloneDeclarations \cup FallbackDeclarations]
    /\ filePaths = NoValue
    /\ results = NoValue
    /\ settled = [state |-> "pending"]
    /\ request = [op |-> "none"]
    /\ designTokenColorsCache = NullList
    /\ lastConfigPath = Null
    /\ tokenFiles = << >>
    /\ fileReads = 0
    /\ approvedColors = NullList
    /\ loadCalls = <<>>
    /\ lastIndex = RestingLastIndex
    /\ audits = <<>>
    /\ recommendations = <<>>
    /\ config = EmptyConfig
    /\ content = <<>>
    /\ filePath = <<>>
    /\ fileType = NoValue
    /\ violations = <<>>
    /\ themeTokens = <<>>
    /\ coverage = 0
    /\ status = NoValue
    /\ scriptsFileType = NoValue
    /\ scriptsCoverage = NoValue
    /\ regexMatch = NoValue
    /\ insideFallback = NoValue
    /\ sent = NoValue
    /\ currentAuditData = NoValue
    /\ sharedDefaults = NoValue
    /\ loaded = NoValue

\* analyzeFile(path, config) of the file, with no configuration or with the
\* loaded default configuration
AnalyzeDocumented ==
    /\ pc = "idle"
    /\ \E path \in DOMAIN sourceFiles, cfg \in {EmptyConfig, DEFAULT_CONFIG} :
          /\ request' = [op |-> "analyzeFile", filePath |-> path]
          /\ AnalyzeFile(path, sourceFiles[path], cfg)
          /\ settled' = [state |-> "fulfilled", value |-> AnalysisResult']
    /\ pc' = "settled"
    /\ UNCHANGED <<filePaths, results>>
    /\ UNCHANGED batchRest

NextDocumented == AnalyzeDocumented

SpecDocumented == InitDocumented /\ [][NextDocumented]_vars

----------------------------------------------------------------------------
(* The tools of the MCP server that analyze a file: analyze_file and        *)
(* validate_code.  The server's project root holds a text or nothing at     *)
(* each path; the engine is the one analyzeFile above models.               *)

\* this.projectRoot
McpProjectRoot == <<"/", "a", "p", "p">>

\* path.resolve(root, p) for a relative path p without . or .. segments
PathResolve(root, p) == root \o <<"/">> \o p

\* the relative paths the file system is described at
McpPaths == {<<"s", "r", "c", "/", "B", "u", "t", "t", "o", "n", ".", "j", "s", "x">>, <<"t", "e", "m", "p", "-", "v", "a", "l", "i", "d", "a", "t", "i", "o", "n", ".", "j", "s">>}

\* what a path may hold, and what a client may send as content or code
McpTexts == {<<"c", "o", "l", "o", "r", ":", " ", "#", "f", "f", "f", ";">>, <<"c", "o", "l", "o", "r", ":", " ", "v", "a", "r", "(", "-", "-", "c", ")", ";">>}

\* the fileType argument of validate_code
McpFileTypes == {<<"j", "s">>, <<"c", "s", "s">>}

\* the message of new McpError(ErrorCode.InternalError, text), which the
\* SDK prefixes with the code
McpErrorMessage(text) == <<"M", "C", "P", " ", "e", "r", "r", "o", "r", " ", "-", "3", "2", "6", "0", "3", ":", " ">> \o text

McpError(text) ==
    [name |-> "McpError", code |-> "InternalError",
     message |-> McpErrorMessage(text)]

\* !fileContent: the argument is absent or the empty string
IsFalsyContent(text) == text = Undefined \/ text = <<>>

\* how the body of the server's analyzeFile(filePath, content) ends before
\* the engine is called: the file is looked up only when no content came
McpPrecheck(files, absolutePath, path, text) ==
    IF IsFalsyContent(text) /\ ReadFails(files, absolutePath)
    THEN [state |-> "rejected",
          value |-> McpError(<<"F", "a", "i", "l", "e", "d", " ", "t", "o", " ", "a", "n", "a", "l", "y", "z", "e", " ", "f", "i", "l", "e", ":", " ">> \o
                             <<"F", "i", "l", "e", " ", "n", "o", "t", " ", "f", "o", "u", "n", "d", ":", " ">> \o path)]
    ELSE [state |-> "pending"]

\* what the engine analyzes: auditFile(absolutePath, config) is handed the
\* path alone and reads the file itself, whatever content the client sent
McpAnalyzed(files, absolutePath, text) ==
    [path |-> absolutePath,
     text |-> IF ReadFails(files, absolutePath) THEN NoSuchFile
              ELSE files[absolutePath]]

\* the object the server's analyzeFile resolves with (the parsed JSON text)
McpAnalysis ==
    [file |-> [path |-> filePath, type |-> fileType, coverage |-> coverage,
               status |-> status],
     violations |-> AnalysisResult.violationsList,
     themeTokens |-> themeTokens,
     summary |-> [totalViolations |-> Len(violations),
                  themeTokenCount |-> Len(themeTokens)]]

\* the object validateCode resolves with
McpValidation ==
    [isValid |-> Len(violations) = 0,
     violations |-> AnalysisResult.violationsList,
     compliance |-> [score |-> coverage, status |-> status,
                     passesDesignSystem |-> Len(violations) = 0]]

InitMcp ==
    /\ pc = "idle"
    /\ sourceFiles \in [{PathResolve(McpProjectRoot, p) : p \in McpPaths}
                          -> McpTexts \cup {NoSuchFile}]
    /\ filePaths = NoValue
    /\ results = NoValue
    /\ settled = [state |-> "pending"]
    /\ request = [tool |-> "none"]
    /\ designTokenColorsCache = NullList
    /\ lastConfigPath = Null
    /\ tokenFiles = << >>
    /\ fileReads = 0
    /\ approvedColors = NullList
    /\ loadCalls = <<>>
    /\ lastIndex = RestingLastIndex
    /\ audits = <<>>
    /\ recommendations = <<>>
    /\ config = DEFAULT_CONFIG
    /\ content = <<>>
    /\ filePath = <<>>
    /\ fileType = NoValue
    /\ violations = <<>>
    /\ themeTokens = <<>>
    /\ coverage = 0
    /\ status = NoValue
    /\ scriptsFileType = NoValue
    /\ scriptsCoverage = NoValue
    /\ regexMatch = NoValue
    /\ insideFallback = NoValue
    /\ sent = NoValue
    /\ currentAuditData = NoValue
    /\ sharedDefaults = NoValue
    /\ loaded = NoValue

\* the server's analyzeFile(path, text), called for the tool analyze_file
\* or by validateCode, whose catch wraps the error once more
McpAnalyzeFile(path, text, isValidate) ==
    \E absolutePath \in {PathResolve(McpProjectRoot, path)} :
    \E early \in {McpPrecheck(sourceFiles, absolutePath, path, text)} :
    \E given \in {McpAnalyzed(sourceFiles, absolutePath, text)} :
       IF early.state = "rejected"
       THEN /\ settled' = IF isValidate
                          THEN [state |-> "rejected",
                                value |-> McpError(<<"F", "a", "i", "l", "e", "d", " ", "t", "o", " ", "v", "a", "l", "i", "d", "a", "t", "e", " ", "c", "o", "d", "e", ":", " ">>
                                                   \o early.value.message)]
                          ELSE early
            /\ UNCHANGED analysisVars
       ELSE IF given.text = NoSuchFile
       THEN /\ settled' =
                 [state |-> "rejected",
                  value |-> IF isValidate
                            THEN McpError(<<"F", "a", "i", "l", "e", "d", " ", "t", "o", " ", "v", "a", "l", "i", "d", "a", "t", "e", " ", "c", "o", "d", "e", ":", " ">> \o
                                     McpErrorMessage(<<"F", "a", "i", "l", "e", "d", " ", "t", "o", " ", "a", "n", "a", "l", "y", "z", "e", " ", "f", "i", "l", "e", ":", " ">>
                                         \o ReadErrorMessage(absolutePath)))
                            ELSE McpError(<<"F", "a", "i", "l", "e", "d", " ", "t", "o", " ", "a", "n", "a", "l", "y", "z", "e", " ", "f", "i", "l", "e", ":", " ">>
                                          \o ReadErrorMessage(absolutePath))]
            /\ UNCHANGED analysisVars
       ELSE /\ AnalyzeFile(given.path, given.text, DEFAULT_CONFIG)
            /\ settled' = [state |-> "fulfilled",
                           value |-> IF isValidate THEN McpValidation'
                                     ELSE McpAnalysis']

\* tool analyze_file with arguments filePath and, optionally, content
AnalyzeFileTool ==
    /\ pc = "idle"
    /\ \E path \in McpPaths, text \in McpTexts \cup {Undefined, <<>>} :
          /\ request' = [tool |-> "analyze_file", filePath |-> path,
                         content |-> text]
          /\ McpAnalyzeFile(path, text, FALSE)
    /\ pc' = "settled"
    /\ UNCHANGED <<filePaths, results>>
    /\ UNCHANGED batchRest

\* tool validate_code with arguments code and fileType: the server's
\* analyzeFile on temp-validation.<fileType> with the code as content
ValidateCodeTool ==
    /\ pc = "idle"
    /\ \E code \in McpTexts \cup {<<>>}, ext \in McpFileTypes :
          /\ request' = [tool |-> "validate_code", code |-> code,
                         fileType |-> ext,
                         filePath |-> <<"t", "e", "m", "p", "-", "v", "a", "l", "i", "d", "a", "t", "i", "o", "n", ".">> \o ext]
          /\ McpAnalyzeFile(<<"t", "e", "m", "p", "-", "v", "a", "l", "i", "d", "a", "t", "i", "o", "n", ".">> \o ext, code, TRUE)
    /\ pc' = "settled"
    /\ UNCHANGED <<filePaths, results>>
    /\ UNCHANGED batchRest

NextMcp == AnalyzeFileTool \/ ValidateCodeTool

SpecMcp == InitMcp /\ [][NextMcp]_vars

----------------------------------------------------------------------------
(* The WebSocket requests of the server that run audits: AUDIT_FILE and     *)
(* AUDIT_ALL, from one connected client.  A handler runs to its end before  *)
(* the next message is read: every await in it is on a promise that is      *)
(* already settled.                                                         *)

MaxRequests == 2

\* PROJECT_ROOT
PROJECT_ROOT == <<"/", "a", "p", "p">>

\* the files of the project tree, in the order fs.readdirSync walks them
ProjectTree == <<<<"/", "a", "p", "p", "/", "s", "r", "c", "/", "B", "u", "t", "t", "o", "n", ".", "j", "s", "x">>, <<"/", "a", "p", "p", "/", "s", "r", "c", "/", "c", "o", "m", "p", "o", "n", "e", "n", "t", "s", "/", "C", "a", "r", "d", ".", "j", "s", "x">>>>

\* a file that exists and cannot be read
Unreadable == <<"EACCES">>

\* the paths a client may name in an AUDIT_FILE payload
RequestPaths == {ProjectTree[1], <<"/", "a", "p", "p", "/", "s", "r", "c", "/", "M", "i", "s", "s", "i", "n", "g", ".", "j", "s", "x">>}

\* config.sourceDirectories.focus as the project configures it
FocusChoices == {<<>>, <<<<"s", "r", "c">>>>, <<<<"s", "r", "c">>, <<"s", "r", "c", "/", "c", "o", "m", "p", "o", "n", "e", "n", "t", "s">>>>}

\* the configuration createServer loads for a project with that focus and
\* a src directory
ServerConfig(focus) ==
    DEFAULT_CONFIG @@
    [sourceDirectories |-> [include |-> <<<<"s", "r", "c">>>>, focus |-> focus]]

\* fs.existsSync
Exists(files, path) == path \in DOMAIN files /\ files[path] # NoSuchFile

\* fs.readFileSync throws
CannotRead(files, path) == ~ Exists(files, path) \/ files[path] = Unreadable

\* error.message of that throw
CannotReadMessage(files, path) ==
    IF Exists(files, path)
    THEN <<"E", "A", "C", "C", "E", "S", ":", " ", "p", "e", "r", "m", "i", "s", "s", "i", "o", "n", " ", "d", "e", "n", "i", "e", "d", ",", " ", "o", "p", "e", "n", " ", "'">> \o path \o <<"'">>
    ELSE ReadErrorMessage(path)

\* error.message of const { filePath } = payload for a message that has no
\* payload
DestructureMessage ==
    <<"C", "a", "n", "n", "o", "t", " ", "d", "e", "s", "t", "r", "u", "c", "t", "u", "r", "e", " ", "p", "r", "o", "p", "e", "r", "t", "y", " ", "'", "f", "i", "l", "e", "P", "a", "t", "h", "'", " ", "o", "f", " ", "'", "p", "a", "y", "l", "o", "a", "d", "'", " ", "a", "s", " ", "i", "t", " ", "i", "s", " ", "u", "n", "d", "e", "f", "i", "n", "e", "d", ".">>

\* scanDirectory(dir): the files of the tree under dir that exist
ScanDirectory(files, dir) ==
    SelectSeq(ProjectTree,
              LAMBDA f : Exists(files, f) /\ StartsWithAt(f, 0, dir \o <<"/">>))

\* scanProject: the focus directories if there are any, the included ones
\* otherwise, scanned one after the other into one list (a directory that
\* does not exist adds nothing)
RECURSIVE ScanDirectories(_, _, _)
ScanDirectories(files, dirs, n) ==
    IF n > Len(dirs) THEN <<>>
    ELSE ScanDirectory(files, PathResolve(PROJECT_ROOT, dirs[n]))
         \o ScanDirectories(files, dirs, n + 1)

ScanProject(files, cfg) ==
    ScanDirectories(files,
                    IF Len(cfg.sourceDirectories.focus) > 0
                    THEN cfg.sourceDirectories.focus
                    ELSE cfg.sourceDirectories.include, 1)

\* file.replace(PROJECT_ROOT + '/', '')
RelativePath(file) ==
    LET at == IndexOf(file, PROJECT_ROOT \o <<"/">>, 0)
    IN  IF at < 0 THEN file
        ELSE Substring(file, 0, at) \o
             Substring(file, at + Len(PROJECT_ROOT) + 1, Len(file))

\* currentAuditData[path] = result
StoreResult(data, path, result) ==
    [p \in DOMAIN data \cup {path} |-> IF p = path THEN result ELSE data[p]]

\* what handleAuditFile's catch does to currentAuditData
StoreOnErrorToo(data, path, message) ==
    StoreResult(data, path, [filePath |-> path, error |-> message, status |-> "error"])

StoreOnError(data, path, message) == data

\* Object.keys(currentAuditData).length
StoredCount(data) == Cardinality(DOMAIN data)

\* the messages handed to the requesting client since its request came
Replies == SubSeq(sent, request.start + 1, Len(sent))

InitServer ==
    /\ pc = "idle"
    /\ sourceFiles \in [{ProjectTree[i] : i \in 1..Len(ProjectTree)}
                          -> {<<"c", "o", "l", "o", "r", ":", " ", "#", "f", "f", "f", ";">>, Unreadable, NoSuchFile}]
    /\ \E focus \in FocusChoices : config = ServerConfig(focus)
    /\ filePaths = <<>>
    /\ results = NoValue
    /\ settled = NoValue
    /\ request = [type |-> "none", n |-> 0, start |-> 0, stored |-> << >>]
    /\ sent = <<>>
    /\ currentAuditData = << >>
    /\ designTokenColorsCache = NullList
    /\ lastConfigPath = Null
    /\ tokenFiles = << >>
    /\ fileReads = 0
    /\ approvedColors = NullList
    /\ loadCalls = <<>>
    /\ lastIndex = RestingLastIndex
    /\ audits = <<>>
    /\ recommendations = <<>>
    /\ content = <<>>
    /\ filePath = <<>>
    /\ fileType = NoValue
    /\ violations = <<>>
    /\ themeTokens = <<>>
    /\ coverage = 0
    /\ status = NoValue
    /\ scriptsFileType = NoValue
    /\ scriptsCoverage = NoValue
    /\ regexMatch = NoValue
    /\ insideFallback = NoValue
    /\ sharedDefaults = NoValue
    /\ loaded = NoValue

serverRest ==
    <<sourceFiles, tokenFiles, loadCalls, audits, scriptsFileType,
      scriptsCoverage, regexMatch, insideFallback, results, settled,
      sharedDefaults, loaded>>

\* the engine's variables but the configuration, which the server owns
serverAnalysisVars ==
    <<content, filePath, fileType, violations, themeTokens, coverage,
      status, recommendations, approvedColors, designTokenColorsCache,
      lastConfigPath, fileReads, lastIndex>>

\* the AUDIT_FILE messages a client may send: without payload (the empty
\* list) or with a payload holding a filePath (a list of that path)
AuditFilePayloads == {<<>>} \cup {<<p>> : p \in RequestPaths}

\* message AUDIT_FILE: handleWebSocketMessage calls handleAuditFile, whose
\* destructuring throws into the caller's catch when there is no payload
HandleAuditFile ==
    /\ pc = "idle"
    /\ request.n < MaxRequests
    /\ \E payload \in AuditFilePayloads :
          /\ request' = [type |-> "AUDIT_FILE", payload |-> payload,
                         n |-> request.n + 1, start |-> Len(sent),
                         stored |-> currentAuditData]
          /\ IF payload = <<>>
             THEN /\ sent' = Append(sent, [type |-> "ERROR",
                                           error |-> DestructureMessage])
                  /\ UNCHANGED <<currentAuditData, config>>
                  /\ UNCHANGED serverAnalysisVars
             ELSE IF CannotRead(sourceFiles, payload[1])
             THEN /\ sent' = sent \o
                       <<[type |-> "AUDIT_STARTED", filePath |-> payload[1]],
                         [type |-> "AUDIT_ERROR", filePath |-> payload[1],
                          error |-> CannotReadMessage(sourceFiles, payload[1])]>>
                  /\ currentAuditData' =
                        StoreOnError(currentAuditData, payload[1],
                                     CannotReadMessage(sourceFiles, payload[1]))
                  /\ UNCHANGED config
                  /\ UNCHANGED serverAnalysisVars
             ELSE /\ AnalyzeFile(payload[1], sourceFiles[payload[1]], config)
                  /\ currentAuditData' =
                        StoreResult(currentAuditData, payload[1], AnalysisResult')
                  /\ sent' = sent \o
                       <<[type |-> "AUDIT_STARTED", filePath |-> payload[1]],
                         [type |-> "AUDIT_COMPLETED", filePath |-> payload[1],
                          result |-> AnalysisResult'],
                         [type |-> "AUDIT_UPDATE", filePath |-> payload[1],
                          result |-> AnalysisResult']>>
    /\ UNCHANGED <<pc, filePaths>>
    /\ UNCHANGED serverRest

\* message AUDIT_ALL, up to the loop: the project is scanned and the stored
\* audit data is replaced by an empty object
AuditAllScan ==
    /\ pc = "idle"
    /\ request.n < MaxRequests
    /\ request' = [type |-> "AUDIT_ALL", n |-> request.n + 1,
                   start |-> Len(sent), stored |-> currentAuditData, i |-> 1]
    /\ filePaths' = ScanProject(sourceFiles, config)
    /\ currentAuditData' = << >>
    /\ pc' = "auditAll"
    /\ UNCHANGED <<sent, config>>
    /\ UNCHANGED serverAnalysisVars
    /\ UNCHANGED serverRest

\* one round of for (let i = 0; i < files.length; i++)
AuditAllRound ==
    /\ pc = "auditAll"
    /\ request.i <= Len(filePaths)
    /\ \E file \in {filePaths[request.i]} :
       \E relativePath \in {RelativePath(file)} :
          IF CannotRead(sourceFiles, file)
          THEN /\ sent' = Append(sent, [type |-> "AUDIT_ERROR",
                                        filePath |-> relativePath,
                                        error |-> CannotReadMessage(sourceFiles, file)])
               /\ UNCHANGED <<currentAuditData, config>>
               /\ UNCHANGED serverAnalysisVars
          ELSE /\ AnalyzeFile(file, sourceFiles[file], config)
               /\ currentAuditData' =
                     StoreResult(currentAuditData, relativePath, AnalysisResult')
               /\ sent' = Append(sent, [type |-> "AUDIT_COMPLETED",
                                        filePath |-> relativePath,
                                        result |-> AnalysisResult'])
    /\ request' = [request EXCEPT !.i = @ + 1]
    /\ UNCHANGED <<pc, filePaths>>
    /\ UNCHANGED serverRest

\* after the loop: the completion message
AuditAllCompleted ==
    /\ pc = "auditAll"
    /\ request.i > Len(filePaths)
    /\ sent' = Append(sent, [type |-> "AUDIT_ALL_COMPLETED",
                             filesProcessed |-> Len(filePaths),
                             totalResults |-> StoredCount(currentAuditData)])
    /\ pc' = "idle"
    /\ UNCHANGED <<request, filePaths, currentAuditData, config>>
    /\ UNCHANGED serverAnalysisVars
    /\ UNCHANGED serverRest

NextServer ==
    \/ HandleAuditFile
    \/ AuditAllScan
    \/ AuditAllRound
    \/ AuditAllCompleted

SpecServer == InitServer /\ [][NextServer]_vars

----------------------------------------------------------------------------
(* extractViolations on texts of several lines, for the location and the    *)
(* context lines it reports with each violation.                            *)

MaxLines == 7

\* the lines a text is made of: a declaration the catalog reports, and a
\* preprocessor variable the stylesheet check reports
LocateLines == {<<"t", "o", "p", ":", " ", "4", "p", "x", ";">>, <<"$", "a", ":", " ", "1", "p", "x">>}

\* the texts of n lines
RECURSIVE TextsOfLines(_)
TextsOfLines(n) ==
    IF n = 1 THEN LocateLines
    ELSE {t \o <<"\n">> \o l : t \in TextsOfLines(n - 1), l \in LocateLines}

LocateContents == UNION {TextsOfLines(n) : n \in 1..MaxLines}

InitLocate ==
    /\ pc = "extractViolations"
    /\ content \in LocateContents
    /\ fileType \in {"ui-component", "scss"}
    /\ config = DEFAULT_CONFIG
    /\ approvedColors = ApprovedColorsOf(config)
    /\ violations = <<>>
    /\ themeTokens = <<>>
    /\ coverage = NoValue
    /\ status = NoValue
    /\ filePath = NoValue
    /\ scriptsFileType = NoValue
    /\ scriptsCoverage = NoValue
    /\ regexMatch = NoValue
    /\ insideFallback = NoValue
    /\ designTokenColorsCache = NoValue
    /\ lastConfigPath = NoValue
    /\ tokenFiles = NoValue
    /\ fileReads = NoValue
    /\ loadCalls = NoValue
    /\ lastIndex = NoValue
    /\ audits = NoValue
    /\ recommendations = NoValue
    /\ ServiceUnused

\* violations = extractViolations(content, filePath, config, fileType)
Locate ==
    /\ pc = "extractViolations"
    /\ violations' = ExtractViolations(content, config, fileType, approvedColors)
    /\ pc' = "extracted"
    /\ UNCHANGED <<content, fileType, config, themeTokens, coverage, status>>
    /\ UNCHANGED PipelineUnused
    /\ UNCHANGED serviceVars

NextLocate == Locate

SpecLocate == InitLocate /\ [][NextLocate]_vars

----------------------------------------------------------------------------
(* ConfigLoader instances created one after the other in one process, each  *)
(* for a project root, and createServer's overrides.  loadConfig starts     *)
(* from { ...DEFAULT_CONFIG }, a copy of the top level only: a section the  *)
(* project's configuration does not name is the very object of             *)
(* DEFAULT_CONFIG, and what loadConfig or createServer assigns inside it     *)
(* is assigned in DEFAULT_CONFIG.                                           *)

MaxLoaders == 3

DefaultPort == 3001

\* the sections of DEFAULT_CONFIG that loadConfig and createServer assign
\* into, as the module defines them
InitialDefaults ==
    [dewConfig |-> [tokensPath |-> Null, cssVariablePrefix |-> <<"-", "-">>],
     server |-> [port |-> DefaultPort, host |-> <<"l", "o", "c", "a", "l", "h", "o", "s", "t">>]]

ProjectRoots == {<<"/", "a">>, <<"/", "b">>}

\* what the configuration file of a project may hold
UserConfigKinds == {"none", "tokensPath", "prefix", "port"}

UserConfigOf(kind) ==
    CASE kind = "tokensPath" -> [dewConfig |-> [tokensPath |-> <<"t", "o", "k", "e", "n", "s", "/", "m", "y", ".", "j", "s", "o", "n">>]]
      [] kind = "prefix" -> [dewConfig |-> [cssVariablePrefix |-> <<"-", "-", "x", "-">>]]
      [] kind = "port" -> [server |-> [port |-> 4000]]
      [] OTHER -> [nothing |-> NoValue]

\* the fallback paths at which a project may keep a token file
FoundChoices == {{}, {DefaultFallbackPaths[1]}, {DefaultFallbackPaths[3]}}

\* the projects: a configuration kind and the set of fallback paths that
\* exist under the root
ProjectKinds == [userConfig : UserConfigKinds, found : FoundChoices]

\* the files of a project, as autoDetectDewConfig sees them
FilesOf(project) == [p \in project.found |-> <<>>]

\* mergeConfigs on one section: a new object with the base's fields and the
\* override's over them
MergeSection(base, override) ==
    [field \in DOMAIN base \cup DOMAIN override |->
        IF field \in DOMAIN override THEN override[field] ELSE base[field]]

\* loadConfig() of a new ConfigLoader for the project, DEFAULT_CONFIG's
\* sections holding defaults: the configuration returned, whether its
\* sections are DEFAULT_CONFIG's own objects, and what those objects hold
\* afterwards
LoadConfigShared(defaults, project) ==
    LET user == UserConfigOf(project.userConfig)
        ownsDew == "dewConfig" \in DOMAIN user
        ownsServer == "server" \in DOMAIN user
        merged == IF ownsDew THEN MergeSection(defaults.dewConfig, user.dewConfig)
                  ELSE defaults.dewConfig
        dew == IF IsFalsyPath(merged.tokensPath)
               THEN [merged EXCEPT !.tokensPath =
                        AutoDetectDewConfig(FilesOf(project), DefaultFallbackPaths)]
               ELSE merged
        server == IF ownsServer THEN MergeSection(defaults.server, user.server)
                  ELSE defaults.server
    IN  [config |-> [dewConfig |-> dew, server |-> server],
         sharesDew |-> ~ ownsDew,
         sharesServer |-> ~ ownsServer,
         defaults |-> [dewConfig |-> IF ownsDew THEN defaults.dewConfig ELSE dew,
                       server |-> defaults.server]]

\* if (serverConfig.port) config.server.port = serverConfig.port
OverridePort(load, port) ==
    [load EXCEPT !.config.server.port = port,
                 !.defaults.server.port = IF load.sharesServer THEN port ELSE @]

InitLoaders ==
    /\ pc = "idle"
    /\ sourceFiles \in [ProjectRoots -> ProjectKinds]
    /\ sharedDefaults = InitialDefaults
    /\ loaded = <<>>
    /\ filePaths = NoValue
    /\ results = NoValue
    /\ settled = NoValue
    /\ request = NoValue
    /\ sent = NoValue
    /\ currentAuditData = NoValue
    /\ config = NoValue
    /\ content = NoValue
    /\ filePath = NoValue
    /\ fileType = NoValue
    /\ violations = NoValue
    /\ themeTokens = NoValue
    /\ coverage = NoValue
    /\ status = NoValue
    /\ scriptsFileType = NoValue
    /\ scriptsCoverage = NoValue
    /\ regexMatch = NoValue
    /\ insideFallback = NoValue
    /\ ProcessUnused

loadersRest ==
    <<pc, sourceFiles, filePaths, results, settled, request, sent,
      currentAuditData, config, content, filePath, fileType, violations,
      themeTokens, coverage, status, scriptsFileType, scriptsCoverage,
      regexMatch, insideFallback>>

\* new ConfigLoader(root).loadConfig()
NewLoaderLoads ==
    /\ Len(loaded) < MaxLoaders
    /\ \E root \in ProjectRoots :
       \E load \in {LoadConfigShared(sharedDefaults, sourceFiles[root])} :
          /\ loaded' = Append(loaded, [root |-> root, by |-> "loadConfig",
                                       config |-> load.config])
          /\ sharedDefaults' = load.defaults
    /\ UNCHANGED loadersRest
    /\ UNCHANGED processVars

\* createServer({ port }) for the project at root
CreateServer ==
    /\ Len(loaded) < MaxLoaders
    /\ \E root \in ProjectRoots, port \in {5000} :
       \E load \in {OverridePort(LoadConfigShared(sharedDefaults, sourceFiles[root]),
                                 port)} :
          /\ loaded' = Append(loaded, [root |-> root, by |-> "createServer",
                                       config |-> load.config])
          /\ sharedDefaults' = load.defaults
    /\ UNCHANGED loadersRest
    /\ UNCHANGED processVars

NextLoaders == NewLoaderLoads \/ CreateServer

SpecLoaders == InitLoaders /\ [][NextLoaders]_vars
----------------------------------------------------------------------------
(* Claims about the scorers. *)

IsLibScored == pc = "scored" /\ fileType # NoValue
IsScriptsScored == pc = "scored" /\ scriptsFileType # NoValue

\* C1: in both engines the coverage computed for any content, violation
\* list and theme token list is a whole number from 0 to 100.
C1_CoverageInRange ==
    /\ IsLibScored => coverage \in 0..100
    /\ IsScriptsScored => scriptsCoverage \in 0..100

\* a file whose violations alone would push the sum below zero
C1_Witness ==
    /\ IsLibScored
    /\ Len(content) > 0
    /\ Len(violations) = 4
    /\ \A i \in 1..4 : violations[i].severity = "high"
    /\ themeTokens = <<>>
    /\ coverage = 0

\* C2: lib coverage = clamp(base + bonus, 0, 100), base = max(0, 100 - 10 *
\* violationScore) for non-empty content and 100 for empty content, bonus =
\* min(20, 2 * token count), whatever the file type.
C2_CoverageFormula ==
    IsLibScored =>
        LET vscore == ViolationScore(violations)
            raw == 100 - 10 * vscore
            base == IF content # <<>> THEN (IF raw > 0 THEN raw ELSE 0) ELSE 100
            twice == 2 * Len(themeTokens)
            bonus == IF twice < 20 THEN twice ELSE 20
            sum == base + bonus
        IN  coverage = (IF sum > 100 THEN 100 ELSE IF sum < 0 THEN 0 ELSE sum)

\* base floored at 0 and the bonus capped at 20: 12 points of violations
\* and 11 tokens give 0 + 20
C2_Witness ==
    /\ IsLibScored
    /\ content # <<>>
    /\ ViolationScore(violations) > 10
    /\ Len(themeTokens) > 10
    /\ coverage = 20

Count(vs, severity) == Cardinality({i \in 1..Len(vs) : vs[i].severity = severity})

\* C3 as stated: the violation score counts high 3, medium 2, low 1 and a
\* critical violation nothing.
C3_CriticalUnweighted ==
    IsLibScored =>
        ViolationScore(violations) =
            3 * Count(violations, "high") + 2 * Count(violations, "medium")
            + Count(violations, "low")

\* C3 amended: a critical violation counts 1, as a low one does.
C3_CriticalWeighsOne ==
    IsLibScored =>
        /\ ViolationScore(violations) =
               3 * Count(violations, "high") + 2 * Count(violations, "medium")
               + Count(violations, "low") + Count(violations, "critical")
        /\ (content # <<>> /\ themeTokens = <<>>
              /\ \A i \in 1..Len(violations) : violations[i].severity = "critical")
           => coverage = 100 - 10 * Len(violations)

\* one critical violation alone costs 10 points
C3_Witness ==
    /\ IsLibScored
    /\ content # <<>>
    /\ themeTokens = <<>>
    /\ Len(violations) = 1
    /\ violations[1].severity = "critical"
    /\ coverage = 90

StatusRank(s) ==
    CASE s = "critical" -> 0
      [] s = "poor" -> 1
      [] s = "fair" -> 2
      [] s = "good" -> 3
      [] s = "excellent" -> 4

\* C4: the status is excellent iff coverage >= 100, else good iff coverage
\* >= good, else fair iff coverage >= min, else poor iff coverage >= min / 2,
\* else critical, with the thresholds of the file type (those of "other" for
\* a type without an entry); so the status never falls as coverage rises.
C4_StatusTiers ==
    pc = "statused" =>
        LET e == IF fileType \in {"ui-component", "page-component", "style-file",
                                  "utility", "container", "other"}
                 THEN expectedCoverage[fileType]
                 ELSE expectedCoverage["other"]
        IN  /\ (status = "excellent") <=> (coverage >= 100)
            /\ (status = "good") <=> (coverage < 100 /\ coverage >= e.good)
            /\ (status = "fair") <=> (coverage < e.good /\ coverage >= e.min)
            /\ (status = "poor") <=> (coverage < e.min /\ 2 * coverage >= e.min)
            /\ (status = "critical") <=> (2 * coverage < e.min)
            /\ \A c \in coverage..100 :
                   StatusRank(GetCoverageStatus(c, fileType)) >= StatusRank(status)

\* a type without a threshold entry, at the half-min boundary of "other"
C4_Witness ==
    /\ pc = "statused"
    /\ fileType = "test"
    /\ coverage = 15
    /\ status = "poor"


----------------------------------------------------------------------------
(* Claims about the classifier. *)

\* the category of the first rule of the priority order that the file matches
FirstMatchingRule(p, c) ==
    LET name == Basename(p)
        rules ==
            << \E e \in StyleExtensions : EndsWith(ToLowerCase(name), <<".">> \o e),
               Includes(name, <<".", "t", "e", "s", "t", ".">>) \/ Includes(name, <<".", "s", "p", "e", "c", ".">>)
                   \/ Includes(p, <<"_", "_", "t", "e", "s", "t", "s", "_", "_">>),
               Includes(name, <<".", "s", "t", "o", "r", "i", "e", "s", ".">>),
               EndsWith(name, <<".", "d", ".", "t", "s">>) \/ Includes(name, <<"t", "y", "p", "e", "s">>),
               Includes(name, <<"c", "o", "n", "f", "i", "g">>),
               IsPageComponent(p, c),
               IsContainer(name, c),
               HasUIIndicators(c) /\ ~IsUtility(name, p),
               IsUtility(name, p),
               TRUE >>
        categories ==
            <<"style-file", "test", "story", "types", "config", "page-component",
              "container", "ui-component", "utility", "other">>
    IN  categories[CHOOSE i \in 1..10 : rules[i] /\ \A j \in 1..(i - 1) : ~rules[j]]

C10_Examples(apiServiceContentOk) ==
    /\ filePath = <<"B", "u", "t", "t", "o", "n", ".", "m", "o", "d", "u", "l", "e", ".", "c", "s", "s">> => fileType = "style-file"
    /\ filePath = <<"U", "s", "e", "r", "C", "a", "r", "d", ".", "t", "e", "s", "t", ".", "j", "s", "x">> => fileType = "test"
    /\ filePath = <<"B", "u", "t", "t", "o", "n", ".", "s", "t", "o", "r", "i", "e", "s", ".", "t", "s", "x">> => fileType = "story"
    /\ filePath = <<"p", "a", "g", "e", "s", "/", "D", "a", "s", "h", "b", "o", "a", "r", "d", ".", "t", "s", "x">> => fileType = "page-component"
    /\ (filePath = <<"a", "p", "i", "S", "e", "r", "v", "i", "c", "e", ".", "t", "s">> /\ apiServiceContentOk) => fileType = "utility"

\* C10 as stated: the first matching rule of the priority order decides, the
\* result is one of the ten categories, and the five example files classify
\* as listed, apiService.ts whenever its content has no UI indicators.
C10_AsStated ==
    pc = "classified" =>
        /\ fileType \in FileTypes
        /\ fileType = FirstMatchingRule(filePath, content)
        /\ C10_Examples(~HasUIIndicators(content))

\* C10 amended: as above, apiService.ts being a utility when its content has
\* no UI indicators and names neither Route nor Layout, Container, Wrapper
\* or Provider.
C10_PriorityOrder ==
    pc = "classified" =>
        /\ fileType \in FileTypes
        /\ fileType = FirstMatchingRule(filePath, content)
        /\ C10_Examples(/\ ~HasUIIndicators(content)
                        /\ ~Includes(content, <<"R", "o", "u", "t", "e">>)
                        /\ \A w \in ContainerContentWords : ~Includes(content, w))

\* a later rule (utility) would match too, the earlier page rule wins
C10_Witness ==
    /\ pc = "classified"
    /\ filePath = <<"p", "a", "g", "e", "s", "/", "a", "p", "i", "S", "e", "r", "v", "i", "c", "e", ".", "t", "s">>
    /\ content = <<"<", "d", "i", "v", " ", "c", "l", "a", "s", "s", "N", "a", "m", "e", "=", "'", "a", "'", " ", "/", ">">>
    /\ fileType = "page-component"

----------------------------------------------------------------------------
(* Claims about the fallback guard. *)

\* the text before the match that the guard reads
GuardBefore == FallbackBeforeMatch(regexMatch.text, content, regexMatch.index)
\* the text after the match that the guard reads
GuardAfter == FallbackAfterMatch(regexMatch.text, content, regexMatch.index)

\* an unclosed var(--name, call stands in s: the call head at a word
\* boundary, a comma after the name, and no ")" from there to the end of s
UnclosedVarCall(s) ==
    \E k \in 0..(Len(s) - 3) :
        LET head == CssVarHeadEnd(s, k)
        IN  /\ head >= 0
            /\ StartsWithAt(s, head, <<",">>)
            /\ \A j \in (head + 1)..Len(s) : s[j] # ")"

\* C7 as stated: the guard answers true only if a var(--name, ... pattern
\* precedes the match and the preceding window has more "(" than ")"; a
\* closing parenthesis after the match is never what decides.
C7_BalanceRequired ==
    (pc = "guarded" /\ insideFallback) =>
        /\ HasCssVarBefore(GuardBefore)
        /\ CountChar(GuardBefore, "(") > CountChar(GuardBefore, ")")

\* C7 amended: the guard answers true exactly when a var(--name, ... pattern
\* precedes the match in the window and either the window has more "(" than
\* ")" or a closing parenthesis follows the match; without the var pattern a
\* closing parenthesis after the match is not sufficient.
C7_BalanceOrClosing ==
    pc = "guarded" =>
        /\ insideFallback =
              (/\ UnclosedVarCall(GuardBefore)
               /\ \/ CountChar(GuardBefore, "(") > CountChar(GuardBefore, ")")
                  \/ HasClosingAfter(GuardAfter))
        /\ (~UnclosedVarCall(GuardBefore) /\ HasClosingAfter(GuardAfter))
              => ~insideFallback

\* a var pattern precedes, the parentheses before the match balance, and the
\* closing parenthesis after the match makes the guard answer true
C7_Witness ==
    /\ pc = "guarded"
    /\ content = <<")", " ", "v", "a", "r", "(", "-", "-", "a", ",", "#", "f", "f", "f", ")">>
    /\ HasCssVarBefore(GuardBefore)
    /\ CountChar(GuardBefore, "(") = CountChar(GuardBefore, ")")
    /\ HasClosingAfter(GuardAfter)
    /\ insideFallback = TRUE

----------------------------------------------------------------------------
(* Claims about the violation extractor. *)

IsExtracted == pc = "extracted"

\* positions of the violations of the given type in the violations list
Emitted(type) == {j \in 1..Len(violations) : violations[j].type = type}

\* the violation of catalog entry i for its match m is in the list
IsEmitted(i, m) ==
    \E j \in 1..Len(violations) :
        violations[j] = Violation(VIOLATION_PATTERNS[i].type,
                                  VIOLATION_PATTERNS[i].severity, content, m)

\* the catalog entries that declare a validator
ValidatorRules ==
    {i \in 1..Len(VIOLATION_PATTERNS) : VIOLATION_PATTERNS[i].validator # "none"}

\* the validator of entry i accepts match m
Accepts(i, m) ==
    IsValidViolation(VIOLATION_PATTERNS[i].validator, m.text, content, m.index, config)

\* the catalog entry of a type that only one entry has
RuleOfType(type) ==
    CHOOSE i \in 1..Len(VIOLATION_PATTERNS) : VIOLATION_PATTERNS[i].type = type

\* C5: for every catalog entry that declares a validator, the violations of
\* its type are exactly its regular expression matches that the validator
\* accepted: every accepted match is reported once, no rejected match is.
C5_ValidatorFilters ==
    IsExtracted =>
        \A i \in ValidatorRules :
            LET ms == PatternMatches(i, content)
                accepted == {n \in 1..Len(ms) : Accepts(i, ms[n])}
            IN  /\ Cardinality(Emitted(VIOLATION_PATTERNS[i].type))
                      = Cardinality(accepted)
                /\ \A n \in 1..Len(ms) : IsEmitted(i, ms[n]) <=> n \in accepted

\* one match of a validated entry is rejected (a color in a var() fallback)
\* and another match is reported
C5_Witness ==
    /\ IsExtracted
    /\ content = <<"c", "o", "l", "o", "r", ":", " ", "v", "a", "r", "(", "-", "-", "c", ",", " ", "#", "f", "f", "f", ")", ";">> \o <<"\n">> \o <<"m", "a", "r", "g", "i", "n", ":", " ", "1", "6", "p", "x", ";">>
    /\ \E m \in {PatternMatches(1, content)[n] : n \in 1..Len(PatternMatches(1, content))} :
          ~Accepts(1, m) /\ ~IsEmitted(1, m)
    /\ Len(violations) = 1
    /\ violations[1].type = "hardcoded-margin-padding"

C8_AsStated ==
    IsExtracted =>
        LET i == RuleOfType("hardcoded-margin-padding")
            ms == PatternMatches(i, content)
        IN  \A n \in 1..Len(ms) :
               /\ ArrayIncludes(IgnoreProperties(config), ExtractCssProperty(ms[n].text))
                     => ~IsEmitted(i, ms[n])
               /\ IgnoreProperties(config) = <<>>
                     => Cardinality({j \in Emitted("hardcoded-margin-padding") :
                           violations[j] = Violation("hardcoded-margin-padding",
                                                     "medium", content, ms[n])}) = 1

\* the verdict of a validator that reads no ignore list
AcceptsWithoutIgnoreList(i, m) ==
    CASE VIOLATION_PATTERNS[i].validator \in {"color", "colorName"} ->
            ~IsInsideCssVariableFallback(m.text, content, m.index)
      [] VIOLATION_PATTERNS[i].validator = "property" -> ~Includes(m.text, <<"v", "a", "r", "(">>)
      [] OTHER -> TRUE

\* C8 amended: a match of the hardcoded-margin-padding entry is not reported
\* when its property is in ignoreProperties; when ignoreProperties is empty
\* or absent it is reported exactly once if its text does not contain
\* "var(" and not at all if it does; with an empty list no match of any
\* entry is suppressed on account of its property.
C8_IgnoredOrReported ==
    IsExtracted =>
        /\ LET i == RuleOfType("hardcoded-margin-padding")
               ms == PatternMatches(i, content)
           IN  \A n \in 1..Len(ms) :
                  /\ ArrayIncludes(IgnoreProperties(config), ExtractCssProperty(ms[n].text))
                        => ~IsEmitted(i, ms[n])
                  /\ IgnoreProperties(config) = <<>>
                        => Cardinality({j \in Emitted("hardcoded-margin-padding") :
                              violations[j] = Violation("hardcoded-margin-padding",
                                                        "medium", content, ms[n])})
                              = (IF Includes(ms[n].text, <<"v", "a", "r", "(">>) THEN 0 ELSE 1)
        /\ IgnoreProperties(config) = <<>> =>
              \A i \in 1..Len(VIOLATION_PATTERNS) :
                 LET ms == PatternMatches(i, content)
                 IN  \A n \in 1..Len(ms) :
                        IsEmitted(i, ms[n]) <=> AcceptsWithoutIgnoreList(i, ms[n])

\* margin: 16px; with margin in the ignore list: matched and not reported
C8_Witness ==
    /\ IsExtracted
    /\ content = <<"m", "a", "r", "g", "i", "n", ":", " ", "1", "6", "p", "x", ";">>
    /\ config.hasIgnoreProperties
    /\ config.ignoreProperties = <<<<"m", "a", "r", "g", "i", "n">>>>
    /\ Len(PatternMatches(RuleOfType("hardcoded-margin-padding"), content)) = 1
    /\ violations = <<>>

\* C9: no violation of any type has as its matched text a declaration of a
\* property that is listed in ignoreProperties.
C9_IgnoredPropertyNeverReported ==
    IsExtracted =>
        \A j \in 1..Len(violations) :
            ~ArrayIncludes(IgnoreProperties(config),
                           ExtractCssProperty(violations[j].match))

----------------------------------------------------------------------------
(* Claims about the approved color loader.                                  *)

\* the list a call with this path computes when it does not return the cache
FreshColors(configPath) ==
    IF IsFalsyPath(configPath) THEN FallbackApprovedColors
    ELSE IF ReadTokenKeys(tokenFiles, configPath) = Thrown
    THEN FallbackApprovedColors
    ELSE ReadTokenKeys(tokenFiles, configPath)

ConsecutiveCalls == {i \in 1..(Len(loadCalls) - 1) : TRUE}

\* C11 as stated: two consecutive calls with the same token path make
\* exactly one file read in total and return the same list; a call whose
\* path differs from the previous call's makes a new read and replaces the
\* cached list.
C11_AsStated ==
    pc = "loader" =>
        \A i \in ConsecutiveCalls :
            LET first == loadCalls[i]
                second == loadCalls[i + 1]
            IN  IF first.path = second.path
                THEN /\ first.reads + second.reads = 1
                     /\ second.result = first.result
                ELSE /\ second.reads = 1
                     /\ second.cached = FreshColors(second.path)

\* C11: a call with the same token path as the previous call reads no file
\* and returns the cached list, also when the previous read failed and the
\* fallback was cached; a call that is the first one or whose path differs
\* from the previous call's replaces the cached list, reading the file once
\* when its path is a non-empty value and reading nothing when the path is
\* absent or empty.
C11_CachedPerPath ==
    pc = "loader" =>
        \A i \in 1..Len(loadCalls) :
            LET call == loadCalls[i]
            IN  IF i > 1 /\ loadCalls[i - 1].path = call.path
                THEN /\ call.reads = 0
                     /\ call.result = loadCalls[i - 1].result
                     /\ call.cached = loadCalls[i - 1].cached
                ELSE /\ call.reads = (IF IsFalsyPath(call.path) THEN 0 ELSE 1)
                     /\ call.cached = FreshColors(call.path)
                     /\ call.result = call.cached

\* the number of reads is the sum over the calls
RECURSIVE SumReads(_)
SumReads(n) == IF n = 0 THEN 0 ELSE SumReads(n - 1) + loadCalls[n].reads

\* a failed read was cached and served again, then another path was read
C11_Witness ==
    /\ pc = "loader"
    /\ Len(loadCalls) = 3
    /\ loadCalls[1].path = <<"a", ".", "j", "s", "o", "n">>
    /\ tokenFiles[<<"a", ".", "j", "s", "o", "n">>] = NoSuchFile
    /\ loadCalls[2].path = <<"a", ".", "j", "s", "o", "n">>
    /\ loadCalls[2].result = FallbackApprovedColors
    /\ loadCalls[3].path = <<"b", ".", "j", "s", "o", "n">>
    /\ loadCalls[3].result = <<<<"c", "o", "l", "o", "r", "-", "f", "i", "l", "l", "-", "b", "r", "a", "n", "d">>, <<"c", "o", "l", "o", "r", "-", "t", "e", "x", "t", "-", "m", "u", "t", "e", "d">>>>
    /\ fileReads = 2
    /\ fileReads = SumReads(3)

C27_OwnPathList ==
    pc = "loader" =>
        /\ \A i \in 1..Len(loadCalls) :
              /\ loadCalls[i].result = FreshColors(loadCalls[i].path)
              /\ loadCalls[i].cached = FreshColors(loadCalls[i].path)
        /\ Len(loadCalls) > 0 =>
              /\ lastConfigPath = loadCalls[Len(loadCalls)].path
              /\ designTokenColorsCache = FreshColors(lastConfigPath)
        /\ Len(loadCalls) = 0 =>
              /\ lastConfigPath = Null
              /\ designTokenColorsCache = NullList

\* paths A, B, A, unset, where B holds no file and A's list is not the
\* fallback list
C27_Witness ==
    /\ pc = "loader"
    /\ Len(loadCalls) = 4
    /\ loadCalls[1].path = <<"a", ".", "j", "s", "o", "n">>
    /\ loadCalls[2].path = <<"b", ".", "j", "s", "o", "n">>
    /\ loadCalls[3].path = <<"a", ".", "j", "s", "o", "n">>
    /\ loadCalls[4].path = Undefined
    /\ tokenFiles[<<"b", ".", "j", "s", "o", "n">>] = NoSuchFile
    /\ loadCalls[1].result = <<<<"c", "o", "l", "o", "r", "-", "f", "i", "l", "l", "-", "b", "r", "a", "n", "d">>, <<"c", "o", "l", "o", "r", "-", "t", "e", "x", "t", "-", "m", "u", "t", "e", "d">>>>
    /\ loadCalls[2].result = FallbackApprovedColors
    /\ loadCalls[3].result = loadCalls[1].result
    /\ loadCalls[4].result = FallbackApprovedColors
    /\ fileReads = 3
----------------------------------------------------------------------------
(* Claims about whole audits.                                               *)

HasAudited == pc = "idle" /\ audits # <<>>

SameInput(a, b) ==
    /\ a.content = b.content
    /\ a.filePath = b.filePath
    /\ a.config = b.config

\* C13: auditing is idempotent.  Two audits in a row of the same content,
\* path and configuration give the same violations, theme tokens, coverage
\* and status, whatever was audited before them in the process.
C13_Idempotent ==
    pc = "idle" =>
        \A i \in 1..(Len(audits) - 1) :
            SameInput(audits[i], audits[i + 1])
            => /\ audits[i + 1].violations = audits[i].violations
               /\ audits[i + 1].themeTokens = audits[i].themeTokens
               /\ audits[i + 1].coverage = audits[i].coverage
               /\ audits[i + 1].status = audits[i].status

\* every module-level pattern is at rest between two audits
C13_PatternsAtRest == pc = "idle" => lastIndex = RestingLastIndex

\* another file was audited with another configuration, which filled the
\* cache from the token file; then one file was audited twice and had
\* violations and theme tokens
C13_Witness ==
    /\ pc = "idle"
    /\ Len(audits) = 3
    /\ audits[1].content # audits[2].content
    /\ TokensPath(audits[1].config) = ProjectTokensPath
    /\ TokensPath(audits[2].config) = Undefined
    /\ SameInput(audits[2], audits[3])
    /\ Len(audits[3].violations) >= 2
    /\ audits[3].themeTokens # <<>>
    /\ audits[3].violations = audits[2].violations
    /\ fileReads = 1

\* place of a violation's source in the order of the loops: the catalog
\* entries, then the dynamic checker, then the stylesheet pattern
LoopRank(v) ==
    IF v.type = "unapproved-tailwind-color" THEN Len(VIOLATION_PATTERNS) + 1
    ELSE IF v.type = "scss-hardcoded-variable" THEN Len(VIOLATION_PATTERNS) + 2
    ELSE CHOOSE i \in 1..Len(VIOLATION_PATTERNS) :
             /\ VIOLATION_PATTERNS[i].type = v.type
             /\ VIOLATION_PATTERNS[i].severity = v.severity

\* the matches of catalog entry i that its validator accepts
AcceptedMatches(i, s, cfg) ==
    LET Accepted(m) == KeepsMatch(VIOLATION_PATTERNS[i], m.text, s, m.index, cfg)
    IN  SelectSeq(PatternMatches(i, s), Accepted)

RECURSIVE AcceptedCount(_, _, _)
AcceptedCount(i, s, cfg) ==
    IF i = 0 THEN 0
    ELSE AcceptedCount(i - 1, s, cfg) + Len(AcceptedMatches(i, s, cfg))

ComesBefore(a, b) ==
    a.line < b.line \/ (a.line = b.line /\ a.column < b.column)

HasViolationOfType(vs, type) == \E n \in 1..Len(vs) : vs[n].type = type

HasScssVariable(s) ==
    ExecAll(s, [k \in 0..Len(s) |-> ScssVariableEnd(s, k)]) # <<>>

\* C15: when analyzeFile audits a file of the stylesheet family (labelled
\* style-file), a preprocessor variable with a hardcoded value such as
\* $primary-color: #007bff; yields a scss-hardcoded-variable violation; the
\* same text in a file of another kind yields none.
C15_StylesheetVariableReported ==
    pc = "idle" =>
        \A i \in 1..Len(audits) :
            HasScssVariable(audits[i].content)
            => (HasViolationOfType(audits[i].violations, "scss-hardcoded-variable")
                <=> audits[i].fileType = "style-file")

\* the names of the color classes of a text: what follows bg-, text- or
\* border- when it starts with color-
ColorClassNames(s) ==
    {Substring(s, j + Len(FirstLiteralAt(s, j, ColorUtilityPrefixes)),
               SkipClass(s, j + Len(FirstLiteralAt(s, j, ColorUtilityPrefixes)),
                         ColorTokenChars)) :
        j \in {k \in 0..Len(s) :
                  /\ FirstLiteralAt(s, k, ColorUtilityPrefixes) # <<>>
                  /\ StartsWithAt(s, k + Len(FirstLiteralAt(s, k, ColorUtilityPrefixes)),
                                  <<"c", "o", "l", "o", "r", "-">>)}}

UnapprovedColorTypes == {"unapproved-tailwind-color", "tailwind-unapproved-color-tokens"}

\* C16: an audit reports a violation of an unapproved-color type exactly
\* when a className attribute holds a bg-color-, text-color- or
\* border-color- class whose token is not among the approved colors; an
\* attribute made of approved classes only yields none.
C16_UnapprovedIffNotApproved ==
    pc = "idle" =>
        \A i \in 1..Len(audits) :
            (\E type \in UnapprovedColorTypes :
                 HasViolationOfType(audits[i].violations, type))
            <=> (\E name \in ColorClassNames(audits[i].content) :
                     ~ArrayIncludes(audits[i].approved, name))

\* C17: when the project's configuration names a token file under
\* dewConfig.tokensPath and the file is readable JSON, the approved colors
\* of an audit made with the configuration ConfigLoader produces are the
\* keys of that file.
C17_ProjectTokensUsed ==
    pc = "idle" =>
        \A i \in 1..Len(audits) :
            LET cfg == audits[i].config
            IN  (/\ "dewConfig" \in DOMAIN cfg
                 /\ ~IsFalsyPath(cfg.dewConfig.tokensPath)
                 /\ ReadTokenKeys(tokenFiles, cfg.dewConfig.tokensPath) # Thrown)
                => audits[i].approved
                   = ReadTokenKeys(tokenFiles, cfg.dewConfig.tokensPath)

----------------------------------------------------------------------------
(* Claims about the recommendations.                                        *)

HasRecommendation(type) ==
    \E n \in 1..Len(recommendations) : recommendations[n].type = type

PriorityOf(type) ==
    {recommendations[n].priority :
        n \in {i \in 1..Len(recommendations) : recommendations[i].type = type}}

RecommendationsAsClaimed ==
    pc = "recommended" =>
        /\ HasRecommendation("color-migration")
           <=> HasViolationOfType(violations, "hardcoded-color")
        /\ PriorityOf("color-migration") \subseteq {"high"}
        /\ HasRecommendation("tailwind-cleanup")
           <=> HasViolationOfType(violations, "tailwind-arbitrary-values")
        /\ PriorityOf("tailwind-cleanup") \subseteq {"high"}
        /\ HasRecommendation("theme-adoption")
           <=> (fileType = "ui-component" /\ Len(themeTokens) < 3)
        /\ PriorityOf("theme-adoption") \subseteq {"medium"}

AnalysisUntouched ==
    /\ violations' = violations
    /\ themeTokens' = themeTokens
    /\ coverage' = coverage
    /\ status' = status

\* C18: generateRecommendations emits a high-priority color-migration
\* recommendation exactly when a hardcoded-color violation exists, a
\* high-priority tailwind-cleanup recommendation exactly when a
\* tailwind-arbitrary-values violation exists, and a medium-priority
\* theme-adoption recommendation exactly when the file type is ui-component
\* and fewer than 3 theme tokens were found; the step changes neither the
\* violations, nor the theme tokens, nor the coverage.
C18_Recommendations ==
    /\ []RecommendationsAsClaimed
    /\ [][AnalysisUntouched]_vars

\* a component with a hardcoded color, an arbitrary utility value and two
\* theme tokens gets the three recommendations
C18_Witness ==
    /\ pc = "recommended"
    /\ HasViolationOfType(violations, "hardcoded-color")
    /\ HasViolationOfType(violations, "tailwind-arbitrary-values")
    /\ fileType = "ui-component"
    /\ Len(themeTokens) = 2
    /\ Len(recommendations) = 3
    /\ coverage = 44

\* the types of the catalog entries for theme use in styled templates
StyledThemeTypes ==
    {"styled-components-theme-destructure",
     "styled-components-multiline-theme-function",
     "styled-components-theme-parameter-destructure",
     "theme-colors-access", "theme-palette-access"}

\* C19: whenever the violations hold one produced by a catalog entry for
\* theme destructuring or theme property access in a styled template,
\* generateRecommendations emits a medium-priority
\* styled-components-migration recommendation.
C19_StyledThemeRecommended ==
    pc = "recommended" =>
        ((\E type \in StyledThemeTypes : HasViolationOfType(violations, type))
         => /\ HasRecommendation("styled-components-migration")
            /\ PriorityOf("styled-components-migration") = {"medium"})

----------------------------------------------------------------------------
(* Claims about the functions called in sequence.                           *)

ScenarioContent == <<"b", "a", "c", "k", "g", "r", "o", "u", "n", "d", ":", " ", "#", "f", "f", "f", "f", "f", "f", ";", "\n", "m", "a", "r", "g", "i", "n", ":", " ", "1", "6", "p", "x", ";">>

IsScenarioDone ==
    /\ pc = "done"
    /\ content = ScenarioContent
    /\ config = DEFAULT_CONFIG
    /\ fileType = "ui-component"

ScenarioViolationsAndCoverage ==
    /\ Len(violations) = 2
    /\ violations[1].type = "hardcoded-color"
    /\ violations[1].severity = "high"
    /\ violations[2].type = "hardcoded-margin-padding"
    /\ violations[2].severity = "medium"
    /\ ViolationScore(violations) = 5
    /\ themeTokens = <<>>
    /\ coverage = 50

\* the scenario as stated: status fair
C20_AsStated ==
    IsScenarioDone => (ScenarioViolationsAndCoverage /\ status = "fair")

\* C20: for the content background: #ffffff; newline margin: 16px; with the
\* default configuration and file type ui-component, the engine yields
\* exactly two violations (hardcoded-color of severity high, then
\* hardcoded-margin-padding of severity medium), violation score 5, no theme
\* token, coverage 50, and status poor: 50 is below the minimum 75 of
\* ui-component and at least half of it.  For the same content the status
\* is poor for page-component and style-file too, good for utility, and
\* fair for every other file type.
C20_ScenarioPoor ==
    /\ IsScenarioDone => (ScenarioViolationsAndCoverage /\ status = "poor")
    /\ (pc = "done" /\ content = ScenarioContent)
       => /\ coverage = 50
          /\ status = (IF fileType \in {"ui-component", "page-component", "style-file"}
                       THEN "poor"
                       ELSE IF fileType = "utility" THEN "good" ELSE "fair")

\* the scenario has run to its end
C20_Witness ==
    /\ IsScenarioDone
    /\ Len(violations) = 2
    /\ violations[1].match = <<"#", "f", "f", "f", "f", "f", "f">>
    /\ violations[2].line = 2
    /\ coverage = 50
    /\ status = "poor"


----------------------------------------------------------------------------
(* Claims about analyzeFile, auditFile and auditFiles as their callers see  *)
(* them.                                                                    *)

\* an auditFile call has settled
AuditFileSettled == pc = "settled" /\ request.op = "auditFile"

\* C21: the promise of auditFile (analyzeFile) for a path whose file cannot
\* be read is rejected with the read error, and no result object is
\* produced; for a readable file it is fulfilled with the result of that
\* path.
C21_ReadErrorRejects ==
    AuditFileSettled =>
        IF ReadFails(sourceFiles, request.filePath)
        THEN /\ settled.state = "rejected"
             /\ settled.value = ReadErrorMessage(request.filePath)
        ELSE /\ settled.state = "fulfilled"
             /\ settled.value.filePath = request.filePath
             /\ settled.value.status # "error"

C21_Witness ==
    /\ AuditFileSettled
    /\ ReadFails(sourceFiles, request.filePath)
    /\ settled.state = "rejected"
    /\ \E p \in BatchPaths : ~ ReadFails(sourceFiles, p)

\* an auditFiles call has returned
AuditFilesSettled == pc = "settled" /\ request.op = "auditFiles"

\* entry e is what auditFiles must hold for path p
EntryFor(e, p) ==
    /\ e.filePath = p
    /\ e.fileName = Basename(p)
    /\ IF ReadFails(sourceFiles, p)
       THEN /\ e.status = "error"
            /\ e.error = ReadErrorMessage(p)
            /\ "coverage" \notin DOMAIN e
       ELSE /\ e.status # "error"
            /\ "error" \notin DOMAIN e
            /\ e.fileType = DetermineFileType(p, sourceFiles[p])

\* C22: auditFiles never aborts: while it runs, its results hold one entry
\* for each path already visited, in the order of the input; its promise is
\* fulfilled with one entry for every path of the input; the entry of a
\* path that cannot be read has status "error" and the error's message, and
\* the paths after it are audited all the same.
C22_OneEntryPerPath ==
    /\ pc = "auditFiles" =>
          /\ Len(results) = request.next - 1
          /\ \A i \in 1..Len(results) : EntryFor(results[i], filePaths[i])
    /\ AuditFilesSettled =>
          /\ settled.state = "fulfilled"
          /\ Len(settled.value) = Len(filePaths)
          /\ \A i \in 1..Len(filePaths) : EntryFor(settled.value[i], filePaths[i])

C22_Witness ==
    /\ AuditFilesSettled
    /\ Len(filePaths) = 3
    /\ ReadFails(sourceFiles, filePaths[1])
    /\ ~ ReadFails(sourceFiles, filePaths[2])
    /\ filePaths[3] = filePaths[1]
    /\ settled.value[1].status = "error"
    /\ settled.value[2].status # "error"
    /\ settled.value[3].status = "error"

----------------------------------------------------------------------------
(* Claims about the declarations the configuration template documents.      *)

DocumentedAnalyzed == pc = "settled" /\ request.op = "analyzeFile"

\* C23: a file holding one of the declarations documented as still flagged
\* (color: #12344d;  margin: 16px;  font-size: 14px;  border-radius: 8px;
\* background: red;) is reported with at least one violation, and a file
\* holding one of the documented var() forms is reported with none.
C23_DocumentedDeclarations ==
    DocumentedAnalyzed =>
        /\ content \in StandaloneDeclarations => Len(violations) >= 1
        /\ content \in FallbackDeclarations => Len(violations) = 0

----------------------------------------------------------------------------
(* Claims about the analyzing tools of the MCP server.                      *)

McpSettled(tool) == pc = "settled" /\ request.tool = tool

\* C24: analyze_file called with a content argument analyzes that content
\* and not the file on disk, and validate_code on a snippet succeeds with
\* the analysis of the snippet although no file exists at the temporary
\* path.
C24_ContentAnalyzed ==
    /\ (McpSettled("analyze_file") /\ ~ IsFalsyContent(request.content)) =>
          /\ settled.state = "fulfilled"
          /\ content = request.content
    /\ (McpSettled("validate_code") /\ ~ IsFalsyContent(request.code)) =>
          /\ settled.state = "fulfilled"
          /\ content = request.code

----------------------------------------------------------------------------
(* Claims about the audit requests of the server.                           *)

\* an AUDIT_FILE request has been handled
AuditFileHandled == pc = "idle" /\ request.type = "AUDIT_FILE"

\* how many of the replies have the type
CountReplies(type) ==
    Cardinality({i \in 1..Len(Replies) : Replies[i].type = type})

\* the replies to an AUDIT_FILE request for path, and what the request did
\* to the stored audit data
StartedThenOneOutcome(path) ==
    /\ Len(Replies) >= 2
    /\ Replies[1] = [type |-> "AUDIT_STARTED", filePath |-> path]
    /\ CountReplies("AUDIT_STARTED") = 1
    /\ CountReplies("AUDIT_COMPLETED") + CountReplies("AUDIT_ERROR") = 1
    /\ Replies[2].type \in {"AUDIT_COMPLETED", "AUDIT_ERROR"}
    /\ Replies[2].filePath = path
    /\ Replies[2].type = "AUDIT_COMPLETED" <=> ~ CannotRead(sourceFiles, path)
    /\ Replies[2].type = "AUDIT_COMPLETED" =>
          currentAuditData = StoreResult(request.stored, path, Replies[2].result)
    /\ Replies[2].type = "AUDIT_ERROR" =>
          /\ currentAuditData = request.stored
          /\ Replies[2].error = CannotReadMessage(sourceFiles, path)

\* the statement made of every AUDIT_FILE request: the requesting client is
\* sent AUDIT_STARTED first and afterwards exactly one of AUDIT_COMPLETED
\* and AUDIT_ERROR
C25_AsStated ==
    AuditFileHandled =>
        /\ Len(Replies) >= 2
        /\ Replies[1].type = "AUDIT_STARTED"
        /\ CountReplies("AUDIT_COMPLETED") + CountReplies("AUDIT_ERROR") = 1

\* C25: for every AUDIT_FILE request that carries a payload, the requesting
\* client is sent AUDIT_STARTED first and afterwards exactly one of
\* AUDIT_COMPLETED (the analysis succeeded) and AUDIT_ERROR (it threw); the
\* stored audit data gets the result at the request's path in the first
\* case and is left as it was in the second.  A request without payload is
\* answered by one ERROR message alone and leaves the stored data as it was.
C25_StartedThenOutcome ==
    AuditFileHandled =>
        IF request.payload = <<>>
        THEN /\ Len(Replies) = 1
             /\ Replies[1].type = "ERROR"
             /\ currentAuditData = request.stored
        ELSE StartedThenOneOutcome(request.payload[1])

C25_Witness ==
    /\ AuditFileHandled
    /\ request.n = 2
    /\ request.payload # <<>>
    /\ Replies[2].type = "AUDIT_ERROR"
    /\ request.stored # << >>
    /\ currentAuditData = request.stored

\* an AUDIT_ALL request has been handled to its end
AuditAllHandled == pc = "idle" /\ request.type = "AUDIT_ALL"

\* the files the scan of the run listed
ScannedFiles == {filePaths[i] : i \in 1..Len(filePaths)}

\* the replies of the given types about the path
RepliesAbout(path, types) ==
    {i \in 1..Len(Replies) : Replies[i].type \in types /\ Replies[i].filePath = path}

\* C30: when an AUDIT_ALL request completes, the stored audit data holds
\* exactly the files of this run whose audit succeeded; every scanned file
\* has produced exactly one AUDIT_COMPLETED or AUDIT_ERROR before the single
\* AUDIT_ALL_COMPLETED, whose filesProcessed is the number of scanned files
\* and whose totalResults is the number of AUDIT_COMPLETED messages of the
\* run.
C30_AuditAllAccounts ==
    AuditAllHandled =>
        /\ DOMAIN currentAuditData =
              {RelativePath(f) : f \in {g \in ScannedFiles : ~ CannotRead(sourceFiles, g)}}
        /\ \A f \in ScannedFiles :
              Cardinality(RepliesAbout(RelativePath(f),
                                       {"AUDIT_COMPLETED", "AUDIT_ERROR"})) = 1
        /\ CountReplies("AUDIT_ALL_COMPLETED") = 1
        /\ Replies[Len(Replies)].type = "AUDIT_ALL_COMPLETED"
        /\ Replies[Len(Replies)].filesProcessed = Cardinality(ScannedFiles)
        /\ Replies[Len(Replies)].totalResults = CountReplies("AUDIT_COMPLETED")

----------------------------------------------------------------------------
(* Claims about the location and the context of a reported violation.       *)

\* number of newline characters before offset k of the content
NewlinesBefore(k) == Cardinality({i \in 1..k : content[i] = "\n"})

\* index of the last newline at or before offset k, -1 if there is none
LastNewlineAtOrBefore(k) ==
    LET at == {i \in 0..k : i < Len(content) /\ content[i + 1] = "\n"}
    IN  IF at = {} THEN -1 ELSE CHOOSE i \in at : \A j \in at : j <= i

\* the lines of a full context, and those that carry the marker
ContextLinesOf(v) == SplitLines(v.fullContext)
MarkedLines(v) ==
    {j \in 1..Len(ContextLinesOf(v)) : ContextLinesOf(v)[j][1] = RightArrow}

\* line j of the context of v shows line n of the content
ShowsLine(v, j, n) ==
    LET shown == ContextLinesOf(v)[j]
        head == ToDecimal(n) \o <<":", " ">>
    IN  /\ n >= 1 /\ n <= Len(SplitLines(content))
        /\ Substring(shown, 2, Len(shown)) = head \o SplitLines(content)[n]

\* the violation was pushed for a match at offset k
LocatedAt(v, k) ==
    /\ Substring(content, k, k + Len(v.match)) = v.match
    /\ v.line = 1 + NewlinesBefore(k)
    /\ v.column = k - LastNewlineAtOrBefore(k)

\* C26: every violation extractViolations emits is located at an offset
\* where its matched text stands: line is 1 plus the number of newline
\* characters before the offset (so between 1 and the number of lines),
\* column is the offset minus the index of the last newline at or before it
\* (1 at the start of a line); fullContext holds at most five consecutive
\* lines of the content, from two before the violating line to two after,
\* and exactly one of them, the violating line, carries the marker.
C26_LocationAndContext ==
    pc = "extracted" =>
        \A n \in 1..Len(violations) :
            /\ \E k \in 0..Len(content) : LocatedAt(violations[n], k)
            /\ violations[n].line >= 1
            /\ violations[n].line <= Len(SplitLines(content))
            /\ Len(ContextLinesOf(violations[n])) <= 5
            /\ Len(ContextLinesOf(violations[n])) =
                  Min(Len(SplitLines(content)), violations[n].line + 2)
                  - Max(1, violations[n].line - 2) + 1
            /\ \A j \in 1..Len(ContextLinesOf(violations[n])) :
                  ShowsLine(violations[n], j, Max(1, violations[n].line - 2) + j - 1)
            /\ MarkedLines(violations[n]) =
                  {violations[n].line - Max(1, violations[n].line - 2) + 1}

C26_Witness ==
    /\ pc = "extracted"
    /\ Len(SplitLines(content)) = 7
    /\ \E a \in 1..Len(violations), b \in 1..Len(violations) :
          /\ violations[a].line = 1
          /\ Len(ContextLinesOf(violations[a])) = 3
          /\ violations[b].line = 4
          /\ violations[b].column = 1
          /\ violations[b].type = "scss-hardcoded-variable"
          /\ Len(ContextLinesOf(violations[b])) = 5

----------------------------------------------------------------------------
(* Claims about ConfigLoader instances sharing a process.                   *)

\* what loadConfig returns for the project in a fresh process
FreshConfig(project) == LoadConfigShared(InitialDefaults, project).config

\* C28: ConfigLoader instances are isolated: no loadConfig modifies the
\* shared DEFAULT_CONFIG, so every ConfigLoader of the process, whatever
\* was loaded before it, gets for its project root the auto-detected
\* dewConfig.tokensPath and the server port it would get in a fresh process
\* (the default port for a project that configures none).
C28_LoadersIsolated ==
    /\ sharedDefaults.dewConfig = InitialDefaults.dewConfig
    /\ \A i \in 1..Len(loaded) :
          /\ loaded[i].config.dewConfig.tokensPath =
                FreshConfig(sourceFiles[loaded[i].root]).dewConfig.tokensPath
          /\ loaded[i].by = "loadConfig" =>
                loaded[i].config.server.port =
                   FreshConfig(sourceFiles[loaded[i].root]).server.port
====
